---- MODULE Spec2Model ----
(***************************************************************************)
(* Model of the useHumanChat hook (matchmaking, main/direct connection     *)
(* registry, session state machine) as run by several clients that share   *)
(* one presence lobby and one peer-to-peer transport.                      *)
(*                                                                         *)
(* Every client is one mounted instance of the hook.  A React callback     *)
(* reads the `status` of the render that created it, so the status a       *)
(* closure captured is kept next to the handler it belongs to              *)
(* (lobbyStatus, peerStatus and the cap field of a connection).            *)
(***************************************************************************)
EXTENDS Integers, Sequences, FiniteSets, TLC

\* ---------------------------------------------------------------- bounds
Peers == {"p1", "p2", "p3"}
Pair == {"p1", "p2"}   \* the clients that start a session under Spec
MaxConns == 2          \* DataConnection objects alive at once
MaxTs == 2             \* distinct Date.now() readings 1..MaxTs
MaxQueue == 1          \* envelopes in flight per connection direction
MaxCloseTimers == 1    \* pending 100 ms close timers per client
MaxTrackPending == 1   \* pending `await channel.track` continuations per client
MaxConnects == 1       \* calls of connect() per client in a run
MaxDisturbances == 1   \* calls of disconnect() and spontaneous transport failures in a run
MaxChatOps == 3        \* calls of the main-chat API (send, react, edit, ...) in a run
RecentCap == 20        \* saveToRecent: recents.slice(0, 20)
MaxNames == 22         \* usernames of met peers
MaxRecentOps == 2      \* saveToRecent calls
MaxHubOps == 4         \* calls of the private-chat handlers of SocialHub in a run
MaxProfileOps == 1     \* calls of updateMyProfile in a run
MaxSocialOps == 3      \* calls of the friend and direct-chat API in a run

ConnIds == 1..MaxConns
NoConn == 0
Timestamps == 1..MaxTs

\* ------------------------------------------------------------- constants
IDLE == "IDLE"
SEARCHING == "SEARCHING"
WAITING == "WAITING"
CONNECTED == "CONNECTED"
DISCONNECTED == "DISCONNECTED"
ChatMode == {IDLE, SEARCHING, WAITING, CONNECTED, DISCONNECTED}

NoPeer == "none"
\* incomingDirectMessage === null
NoDirect == [peerId |-> NoPeer]
NoEntry == [status |-> "absent", timestamp |-> 0]
FreeConn == [from |-> NoPeer, to |-> NoPeer, kind |-> "none", extra |-> "none",
             st |-> [a |-> "none", b |-> "none"],
             cap |-> [a |-> IDLE, b |-> IDLE],
             fcap |-> [a |-> <<>>, b |-> <<>>],
             q |-> [a |-> <<>>, b |-> <<>>]]

\* the greeting that seeds the history of a freshly opened main session
INITIAL_GREETING == [id |-> "init-1", text |-> "greeting"]
\* the text the profile handler patches into the greeting
ConnectedWith(p) == [INITIAL_GREETING EXCEPT !.text = p]

\* the profile of a client is identified with its peer id (username = id)
userProfile(c) == c

VARIABLES
  status,               \* useState status
  messages,             \* useState messages (main history)
  partnerProfile,       \* useState partnerProfile
  partnerPeerId,        \* useState partnerPeerId
  partnerTyping,        \* useState partnerTyping
  partnerRecording,     \* useState partnerRecording
  typingTimeoutRef,     \* TRUE: the 4000 ms expiry of partnerTyping is armed
  recordingTimeoutRef,  \* TRUE: the 4000 ms expiry of partnerRecording is armed
  remoteVanishMode,     \* useState remoteVanishMode: "null" | TRUE | FALSE
  incomingDirectMessage, \* useState incomingDirectMessage: NoDirect or the last event
  friends,              \* useState friends, kept equal to localStorage 'chat_friends'
  friendRequests,       \* useState friendRequests
  recents,              \* localStorage 'recent_peers'
  error,                \* useState error: "null" or a message
  peerRef,              \* "none" | "attaching" | "open" (myPeerIdRef is set) | "destroyed"
  mainConnRef,          \* mainConnRef.current
  directConnsRef,       \* directConnsRef.current : peer id -> connection
  channelRef,           \* "none" | "joining" | "subscribed"
  isMatchmakerRef,
  isConnectingRef,
  connectionTimeoutRef, \* TRUE: the match-attempt timeout is armed
  closeTimers,          \* pending 100 ms timers of cleanupMain
  trackPending,         \* pending continuations of `await channel.track`
  joinOnOpen,           \* connect() registered peer.on('open', joinLobby)
  lobbyStatus,          \* status captured by the joinLobby closure in use
  peerStatus,           \* status captured by the peer's 'connection' handler
  lobbyFriends,         \* friends captured by the joinLobby closure in use
  peerFriends,          \* friends captured by the peer's 'connection' handler
  socialHub,            \* SocialHub: activePeer, localChatHistory, the stored
                        \* 'chat_history_<peerId>' lists, an error that escaped
  presence,             \* the lobby: peer id -> entry
  conns,                \* the transport: connection id -> both endpoints
  budget                \* API calls and transport failures the run may still make

vars == <<status, messages, partnerProfile, partnerPeerId, partnerTyping,
          partnerRecording, typingTimeoutRef, recordingTimeoutRef,
          remoteVanishMode, incomingDirectMessage, friends,
          friendRequests, recents, error, peerRef, mainConnRef,
          directConnsRef, channelRef, isMatchmakerRef, isConnectingRef,
          connectionTimeoutRef, closeTimers, trackPending, joinOnOpen,
          lobbyStatus, peerStatus, lobbyFriends, peerFriends, socialHub,
          presence, conns, budget>>

\* the whole state as one record, so that the hook's functions compose
State ==
  [status |-> status, messages |-> messages, partnerProfile |-> partnerProfile,
   partnerPeerId |-> partnerPeerId, peerRef |-> peerRef,
   mainConnRef |-> mainConnRef, directConnsRef |-> directConnsRef,
   channelRef |-> channelRef, isMatchmakerRef |-> isMatchmakerRef,
   isConnectingRef |-> isConnectingRef,
   connectionTimeoutRef |-> connectionTimeoutRef, closeTimers |-> closeTimers,
   trackPending |-> trackPending, joinOnOpen |-> joinOnOpen,
   lobbyStatus |-> lobbyStatus, peerStatus |-> peerStatus,
   presence |-> presence, conns |-> conns,
   partnerTyping |-> partnerTyping, partnerRecording |-> partnerRecording,
   typingTimeoutRef |-> typingTimeoutRef,
   recordingTimeoutRef |-> recordingTimeoutRef,
   remoteVanishMode |-> remoteVanishMode,
   incomingDirectMessage |-> incomingDirectMessage,
   friends |-> friends, friendRequests |-> friendRequests,
   recents |-> recents, error |-> error, socialHub |-> socialHub,
   lobbyFriends |-> lobbyFriends, peerFriends |-> peerFriends]

\* ------------------------------------------------------------- transport
\* the endpoint of connection k that client c holds
SideOf(s, k, c) == IF s.conns[k].from = c THEN "a" ELSE "b"
OtherSide(side) == IF side = "a" THEN "b" ELSE "a"
Endpoint(s, k, side) == IF side = "a" THEN s.conns[k].from ELSE s.conns[k].to
\* conn.peer as seen by client c
PeerOf(s, k, c) == IF s.conns[k].from = c THEN s.conns[k].to ELSE s.conns[k].from
\* conn.open as seen by client c
IsOpen(s, k, c) == k # NoConn /\ s.conns[k].st[SideOf(s, k, c)] = "open"

\* conn.send(env) by client c: delivered in order to the other endpoint;
\* a send on a connection that is not open, or whose other end is gone, is lost
send(s, c, k, env) ==
  LET other == OtherSide(SideOf(s, k, c)) IN
  IF IsOpen(s, k, c) /\ s.conns[k].st[other] \in {"pending", "open"}
  THEN [s EXCEPT !.conns[k].q[other] = Append(@, env)]
  ELSE s

\* a connection object nobody can reach any more: both endpoints are dead
\* and no ref holds it
Referenced(s, k) ==
  \E c \in Peers : s.mainConnRef[c] = k \/ (\E p \in Peers : s.directConnsRef[c][p] = k)
Dead(s, k) ==
  /\ s.conns[k].st.a = "closed"
  /\ s.conns[k].st.b \in {"closed", "none"}
  /\ ~Referenced(s, k)
\* closures nobody will call any more are forgotten with their captured status
Collect(s) ==
  [s EXCEPT
     !.conns = [k \in ConnIds |->
        IF Dead(s, k) THEN FreeConn
        ELSE [s.conns[k] EXCEPT
                !.cap = [side \in {"a", "b"} |->
                   IF s.conns[k].st[side] \in {"pending", "open"}
                   THEN s.conns[k].cap[side] ELSE IDLE],
                !.extra = IF s.conns[k].st.a \in {"pending", "open"}
                          THEN s.conns[k].extra ELSE "none",
                !.fcap = [side \in {"a", "b"} |->
                   IF s.conns[k].st[side] \in {"pending", "open"}
                   THEN s.conns[k].fcap[side] ELSE <<>>]]],
     !.lobbyStatus = [c \in Peers |->
        IF s.channelRef[c] # "none" \/ s.joinOnOpen[c] THEN s.lobbyStatus[c] ELSE IDLE],
     !.lobbyFriends = [c \in Peers |->
        IF s.channelRef[c] # "none" \/ s.joinOnOpen[c] THEN s.lobbyFriends[c] ELSE <<>>]]

FreeIds(s) == {k \in ConnIds : s.conns[k] = FreeConn}
\* peer.connect(target, {metadata}) by client c: a new DataConnection
NewConnId(s) == CHOOSE k \in FreeIds(s) : \A j \in FreeIds(s) : k <= j
peerConnect(s, c, target, kind) ==
  [s EXCEPT !.conns[NewConnId(s)] =
     [FreeConn EXCEPT !.from = c, !.to = target, !.kind = kind, !.st.a = "pending"]]

\* -------------------------------------------------------------- presence
\* channel.track(entry): replaces the client's entry once the channel is joined.
\* Only the timestamp of a waiting entry is ever read (the filter on status
\* precedes the sort), so the entries of other statuses carry timestamp 0.
track(s, c, st, ts) ==
  IF s.channelRef[c] = "subscribed"
  THEN [s EXCEPT !.presence[c] = [status |-> st, timestamp |-> ts]]
  ELSE s

\* supabase.removeChannel(channel): the client's entry leaves the lobby
removeChannel(s, c) ==
  [s EXCEPT !.presence[c] = NoEntry, !.channelRef[c] = "none"]

\* ------------------------------------------------------------ the hook
\* the 'data' listener that setupConnection registers calls the
\* handleIncomingData of the same render, which read `friends` then
captured(s, c, k, fr) == [s EXCEPT !.conns[k].fcap[SideOf(s, k, c)] = fr]

\* cleanupMain
cleanupMain(s, c) ==
  LET s1 == IF s.channelRef[c] # "none" THEN removeChannel(s, c) ELSE s
      k == s1.mainConnRef[c]
      s2 == IF k # NoConn
            THEN [send(s1, c, k, [type |-> "disconnect"])
                    EXCEPT !.closeTimers[c] = @ + 1]
            ELSE s1
  IN [s2 EXCEPT !.connectionTimeoutRef[c] = FALSE,
                !.isMatchmakerRef[c] = FALSE,
                !.isConnectingRef[c] = FALSE,
                !.partnerTyping[c] = FALSE,
                !.partnerRecording[c] = FALSE,
                !.typingTimeoutRef[c] = FALSE,
                !.recordingTimeoutRef[c] = FALSE,
                !.status[c] = DISCONNECTED,
                !.partnerPeerId[c] = NoPeer]


\* setupConnection with line 348 left out: the in-flight flag stays set
setupConnectionKeepsFlag(s, c, k, meta, cap) ==
  LET s1 == [s EXCEPT !.connectionTimeoutRef[c] = FALSE,
                      !.conns[k].cap[SideOf(s, k, c)] = cap]
  IN IF meta = "random" \/ (meta = "none" /\ s1.isMatchmakerRef[c])
     THEN LET s2 == [s1 EXCEPT !.mainConnRef[c] = k,
                               !.isConnectingRef[c] = FALSE,
                               !.partnerPeerId[c] = PeerOf(s, k, c)]
          IN IF s2.channelRef[c] # "none" /\ s2.peerRef[c] = "open"
             THEN track(s2, c, "busy", 0)
             ELSE s2
     ELSE [s1 EXCEPT !.directConnsRef[c][PeerOf(s, k, c)] = k]

\* setupConnection deciding the kind by the in-flight flag alone, the
\* connection's metadata ignored
setupConnectionIgnoresMetadata(s, c, k, meta, cap) ==
  LET s1 == [s EXCEPT !.connectionTimeoutRef[c] = FALSE,
                      !.conns[k].cap[SideOf(s, k, c)] = cap]
  IN IF s1.isMatchmakerRef[c]
     THEN LET s2 == [s1 EXCEPT !.mainConnRef[c] = k,
                               !.isMatchmakerRef[c] = FALSE,
                               !.isConnectingRef[c] = FALSE,
                               !.partnerPeerId[c] = PeerOf(s, k, c)]
          IN IF s2.channelRef[c] # "none" /\ s2.peerRef[c] = "open"
             THEN track(s2, c, "busy", 0)
             ELSE s2
     ELSE [s1 EXCEPT !.directConnsRef[c][PeerOf(s, k, c)] = k]

\* setupConnection(conn, metadata), run by a callback that captured status `cap`
setupConnection(s, c, k, meta, cap) ==
  LET s1 == [s EXCEPT !.connectionTimeoutRef[c] = FALSE,
                      !.conns[k].cap[SideOf(s, k, c)] = cap]
  IN IF meta = "random" \/ (meta = "none" /\ s1.isMatchmakerRef[c])
     THEN LET s2 == [s1 EXCEPT !.mainConnRef[c] = k,
                               !.isMatchmakerRef[c] = FALSE,
                               !.isConnectingRef[c] = FALSE,
                               !.partnerPeerId[c] = PeerOf(s, k, c)]
          IN IF s2.channelRef[c] # "none" /\ s2.peerRef[c] = "open"
             THEN track(s2, c, "busy", 0)
             ELSE s2
     ELSE [s1 EXCEPT !.directConnsRef[c][PeerOf(s, k, c)] = k]

\* conn.on('open')
onConnOpen(s, c, k) ==
  LET s1 == [s EXCEPT !.conns[k].st[SideOf(s, k, c)] = "open"]
      s2 == IF k = s1.mainConnRef[c]
            THEN [s1 EXCEPT !.status[c] = CONNECTED,
                            !.messages[c] = <<INITIAL_GREETING>>]
            ELSE s1
  IN send(s2, c, k, [type |-> "profile", payload |-> userProfile(c)])

\* conn.on('close'), registered by a setupConnection that captured status `cap`
onConnClose(s, c, k) ==
  LET side == SideOf(s, k, c)
      cap == s.conns[k].cap[side]
      s1 == [s EXCEPT !.conns[k].st[side] = "closed", !.conns[k].q[side] = <<>>]
  IN IF k = s1.mainConnRef[c] /\ cap = CONNECTED
     THEN [s1 EXCEPT !.status[c] = DISCONNECTED,
                     !.messages[c] = <<>>,
                     !.partnerPeerId[c] = NoPeer]
     ELSE [s1 EXCEPT !.directConnsRef[c][PeerOf(s, k, c)] = NoConn]

\* conn.close() by client c: an open connection emits 'close' to its own
\* handler within the call, a connection that never opened just dies
close(s, c, k) ==
  LET side == SideOf(s, k, c) IN
  IF s.conns[k].st[side] = "open" THEN onConnClose(s, c, k)
  ELSE IF s.conns[k].st[side] = "pending"
  THEN [s EXCEPT !.conns[k].st[side] = "closed", !.conns[k].q[side] = <<>>]
  ELSE s

\* the callback of the 100 ms timer armed by cleanupMain: it closes whatever
\* connection the main slot holds when it fires
cleanupMainTimer(s, c) ==
  LET k == s.mainConnRef[c]
      s1 == IF k # NoConn THEN close(s, c, k) ELSE s
  IN [s1 EXCEPT !.mainConnRef[c] = NoConn, !.closeTimers[c] = @ - 1]

\* conn.on('error'), before the connection opened
onConnError(s, c, k) ==
  LET side == SideOf(s, k, c)
      cap == s.conns[k].cap[side]
      s1 == [s EXCEPT !.conns[k].st[side] = "closed", !.conns[k].q[side] = <<>>]
  IN IF k = s1.mainConnRef[c] /\ cap \in {SEARCHING, WAITING}
     THEN [s1 EXCEPT !.isMatchmakerRef[c] = FALSE]
     ELSE s1

\* peer.on('error') with err.type = 'peer-unavailable' for connection k
onPeerUnavailable(s, c, k) ==
  LET s1 == [s EXCEPT !.conns[k].st.a = "closed"]
  IN IF s1.isMatchmakerRef[c]
     THEN [s1 EXCEPT !.isMatchmakerRef[c] = FALSE]
     ELSE s1

\* a field of a JavaScript object, `default` standing for undefined
Field(r, f, default) == IF f \in DOMAIN r THEN r[f] ELSE default
\* { ...r, f: v }
SetField(r, f, v) == [x \in DOMAIN r \cup {f} |-> IF x = f THEN v ELSE r[x]]

\* saveToRecent without the slice
saveToRecentUncapped(s, c, profile, peerId, now) ==
  LET others == SelectSeq(s.recents[c], LAMBDA r : r.profile # profile)
  IN [s EXCEPT !.recents[c] =
        <<[peerId |-> peerId, profile |-> profile, metAt |-> now]>> \o others]

\* saveToRecent(profile, peerId): the entry goes first, an older entry of the
\* same username is dropped, the first RecentCap entries are kept
saveToRecent(s, c, profile, peerId, now) ==
  LET others == SelectSeq(s.recents[c], LAMBDA r : r.profile # profile)
      recent == <<[peerId |-> peerId, profile |-> profile, metAt |-> now]>> \o others
  IN [s EXCEPT !.recents[c] =
        IF Len(recent) > RecentCap THEN SubSeq(recent, 1, RecentCap) ELSE recent]

\* saveFriend(profile, peerId)
saveFriend(s, c, profile, peerId) ==
  IF \E i \in DOMAIN s.friends[c] : s.friends[c][i].id = peerId THEN s
  ELSE [s EXCEPT !.friends[c] = <<[id |-> peerId, profile |-> profile]>> \o @,
                 !.friendRequests[c] = SelectSeq(@, LAMBDA req : req.peerId # peerId)]

\* the Message that handleIncomingData builds from a message envelope
newMessage(data) ==
  IF Field(data, "dataType", "text") \in {"image", "audio"}
  THEN [id |-> data.id, sender |-> "stranger", type |-> data.dataType,
        reactions |-> <<>>, fileData |-> data.payload]
  ELSE [id |-> data.id, sender |-> "stranger",
        type |-> Field(data, "dataType", "text"),
        reactions |-> <<>>, text |-> data.payload]

\* handleIncomingData, one operator per branch; isMain is
\* conn === mainConnRef.current
isMain(s, c, k) == k = s.mainConnRef[c]

\* 1. MESSAGES
onMessage(s, c, k, data) ==
  IF isMain(s, c, k)
  THEN send([s EXCEPT !.partnerTyping[c] = FALSE,
                      !.partnerRecording[c] = FALSE,
                      !.typingTimeoutRef[c] = FALSE,
                      !.recordingTimeoutRef[c] = FALSE,
                      !.messages[c] = Append(@, newMessage(data))],
            c, k, [type |-> "seen", messageId |-> data.id])
  ELSE [s EXCEPT !.incomingDirectMessage[c] =
                   [peerId |-> PeerOf(s, k, c), message |-> newMessage(data)]]

\* 2. SEEN RECEIPTS
onSeen(s, c, k, data) ==
  IF isMain(s, c, k) /\ Field(data, "messageId", "undefined") # "undefined"
  THEN [s EXCEPT !.messages[c] = [n \in DOMAIN @ |-> LET msg == @[n] IN
         IF msg.id = data.messageId THEN SetField(msg, "status", "seen") ELSE msg]]
  ELSE s

\* the reaction branch of the hook's second copy (part_001), which appends
\* without looking for an existing entry
onReactionCopy(s, c, k, data) ==
  IF isMain(s, c, k) /\ Field(data, "messageId", "undefined") # "undefined"
  THEN [s EXCEPT !.messages[c] = [n \in DOMAIN @ |-> LET msg == @[n] IN
         IF msg.id = data.messageId
         THEN SetField(msg, "reactions",
                       Append(Field(msg, "reactions", <<>>),
                              [emoji |-> data.payload, sender |-> "stranger"]))
         ELSE msg]]
  ELSE s

\* 3. REACTIONS
onReaction(s, c, k, data) ==
  IF isMain(s, c, k) /\ Field(data, "messageId", "undefined") # "undefined"
  THEN [s EXCEPT !.messages[c] = [n \in DOMAIN @ |-> LET msg == @[n] IN
         IF msg.id = data.messageId
         THEN IF \E i \in DOMAIN Field(msg, "reactions", <<>>) :
                   /\ msg.reactions[i].sender = "stranger"
                   /\ msg.reactions[i].emoji = data.payload
              THEN msg
              ELSE SetField(msg, "reactions",
                            Append(Field(msg, "reactions", <<>>),
                                   [emoji |-> data.payload, sender |-> "stranger"]))
         ELSE msg]]
  ELSE s

\* 4. EDIT MESSAGE
onEditMessage(s, c, k, data) ==
  IF isMain(s, c, k)
  THEN [s EXCEPT !.messages[c] = [n \in DOMAIN @ |-> LET msg == @[n] IN
         IF /\ Field(msg, "sender", "undefined") = "stranger"
            /\ Field(msg, "type", "undefined") = "text"
            /\ \/ Field(data, "messageId", "undefined") = "undefined"
               \/ msg.id = data.messageId
         THEN SetField(SetField(msg, "text", data.payload), "isEdited", TRUE)
         ELSE msg]]
  ELSE s

\* the typing branch without its setTimeout: the indicator is set and any
\* armed expiry cleared, but no new expiry is armed
onTypingNoExpiry(s, c, k, data) ==
  IF isMain(s, c, k)
  THEN [s EXCEPT !.partnerTyping[c] = data.payload,
                 !.typingTimeoutRef[c] = FALSE]
  ELSE s

\* 5. INDICATORS: on the main connection the indicator takes the payload, the
\* armed expiry is cleared and, for a true payload, a new one is armed; on a
\* direct connection only incomingDirectStatus (not part of this state) is set
onTyping(s, c, k, data) ==
  IF isMain(s, c, k)
  THEN LET s1 == [s EXCEPT !.partnerTyping[c] = data.payload,
                           !.typingTimeoutRef[c] = FALSE]
       IN IF data.payload THEN [s1 EXCEPT !.typingTimeoutRef[c] = TRUE] ELSE s1
  ELSE s
onRecording(s, c, k, data) ==
  IF isMain(s, c, k)
  THEN LET s1 == [s EXCEPT !.partnerRecording[c] = data.payload,
                           !.recordingTimeoutRef[c] = FALSE]
       IN IF data.payload THEN [s1 EXCEPT !.recordingTimeoutRef[c] = TRUE] ELSE s1
  ELSE s

\* the callbacks of the two 4000 ms timers
typingTimeout(s, c) ==
  [s EXCEPT !.partnerTyping[c] = FALSE, !.typingTimeoutRef[c] = FALSE]
recordingTimeout(s, c) ==
  [s EXCEPT !.partnerRecording[c] = FALSE, !.recordingTimeoutRef[c] = FALSE]

\* 6. PROFILE
onProfile(s, c, k, data) ==
  LET s1 == saveToRecent(s, c, data.payload, PeerOf(s, k, c), 0) IN
  IF isMain(s, c, k)
  THEN [s1 EXCEPT !.partnerProfile[c] = data.payload,
                  !.messages[c] = [i \in DOMAIN @ |->
                      IF @[i].id = "init-1" THEN SetField(@[i], "text", data.payload)
                                            ELSE @[i]]]
  ELSE s1

\* 8. FRIEND REQUESTS: `friends` is the list the handler's render read
onFriendRequest(s, c, k, data) ==
  LET peer == PeerOf(s, k, c)
      friendsThen == s.conns[k].fcap[SideOf(s, k, c)]
  IN IF \/ \E i \in DOMAIN friendsThen : friendsThen[i].id = peer
        \/ \E i \in DOMAIN s.friendRequests[c] : s.friendRequests[c][i].peerId = peer
     THEN s
     ELSE [s EXCEPT !.friendRequests[c] =
                      Append(@, [profile |-> data.payload, peerId |-> peer])]

\* a friend_accept branch that stores nothing
onFriendAcceptIgnored(s, c, k, data) == s

onFriendAccept(s, c, k, data) == saveFriend(s, c, data.payload, PeerOf(s, k, c))

\* a disconnect branch that treats every connection as the main one
onDisconnectAlwaysMain(s, c, k) ==
  [close([s EXCEPT !.status[c] = DISCONNECTED, !.messages[c] = <<>>], c, k)
     EXCEPT !.mainConnRef[c] = NoConn, !.partnerPeerId[c] = NoPeer]

\* 9. DISCONNECT
onDisconnect(s, c, k) ==
  IF isMain(s, c, k)
  THEN [close([s EXCEPT !.status[c] = DISCONNECTED, !.messages[c] = <<>>], c, k)
          EXCEPT !.mainConnRef[c] = NoConn, !.partnerPeerId[c] = NoPeer]
  ELSE [s EXCEPT !.directConnsRef[c][PeerOf(s, k, c)] = NoConn]

\* handleIncomingData(data, conn), as created by the render that set the
\* connection up
handleIncomingData(s, c, k, data) ==
  CASE data.type = "message" -> onMessage(s, c, k, data)
    [] data.type = "seen" -> onSeen(s, c, k, data)
    [] data.type = "reaction" -> onReaction(s, c, k, data)
    [] data.type = "edit_message" -> onEditMessage(s, c, k, data)
    [] data.type = "typing" -> onTyping(s, c, k, data)
    [] data.type = "recording" -> onRecording(s, c, k, data)
    [] data.type = "profile" -> onProfile(s, c, k, data)
    [] data.type = "vanish_mode" ->
         IF isMain(s, c, k) THEN [s EXCEPT !.remoteVanishMode[c] = data.payload] ELSE s
    [] data.type = "friend_request" -> onFriendRequest(s, c, k, data)
    [] data.type = "friend_accept" -> onFriendAccept(s, c, k, data)
    [] data.type = "disconnect" -> onDisconnect(s, c, k)
    [] OTHER -> s

\* joinLobby(myId), run from a connect() that captured status `cap`
joinLobby(s, c, cap) ==
  LET s1 == [s EXCEPT !.status[c] = SEARCHING]
      s2 == IF s1.channelRef[c] # "none" THEN removeChannel(s1, c) ELSE s1
  IN [s2 EXCEPT !.channelRef[c] = "joining", !.lobbyStatus[c] = cap]

\* initPeer: the peer is created once; its 'connection' handler keeps the
\* setupConnection of the render that created it
initPeer(s, c, cap) ==
  IF s.peerRef[c] \notin {"none", "destroyed"} THEN s
  ELSE [s EXCEPT !.peerRef[c] = "attaching", !.peerStatus[c] = cap,
                 !.peerFriends[c] = s.friends[c]]

\* connect, as created by the render whose status is `cap`
connect(s, c, cap) ==
  IF s.isConnectingRef[c] THEN s
  ELSE LET s0 == [s EXCEPT !.isConnectingRef[c] = TRUE]
           s1 == cleanupMain(s0, c)
           s2 == [s1 EXCEPT !.messages[c] = <<>>,
                            !.partnerProfile[c] = NoPeer,
                            !.remoteVanishMode[c] = "null",
                            !.friendRequests[c] = <<>>,
                            !.isMatchmakerRef[c] = FALSE,
                            !.lobbyFriends[c] = s.friends[c]]
           s3 == initPeer(s2, c, cap)
       IN IF s3.peerRef[c] = "open"
          THEN joinLobby(s3, c, cap)
          ELSE [s3 EXCEPT !.joinOnOpen[c] = TRUE, !.lobbyStatus[c] = cap]

\* disconnect
disconnect(s, c) ==
  LET k == s.mainConnRef[c]
      s1 == IF s.partnerProfile[c] # NoPeer /\ k # NoConn
            THEN saveToRecent(s, c, s.partnerProfile[c], PeerOf(s, k, c), 0)
            ELSE s
  IN [cleanupMain(s1, c) EXCEPT !.messages[c] = <<>>]


\* ------------------------------------------------------ main chat API
\* the main connection as sendMessage and its siblings test it: they send
\* when the slot is set and the status of the calling render is CONNECTED
sendMain(s, c, env) ==
  IF s.mainConnRef[c] # NoConn /\ s.status[c] = CONNECTED
  THEN send(s, c, s.mainConnRef[c], env)
  ELSE s

\* sendMessage(text), id standing for the generated identifier
sendMessage(s, c, text, id) ==
  [sendMain(s, c, [type |-> "message", payload |-> text, dataType |-> "text", id |-> id])
     EXCEPT !.messages[c] = Append(@, [id |-> id, text |-> text, type |-> "text",
                                       sender |-> "me", reactions |-> <<>>,
                                       status |-> "sent"])]

\* sendReaction(messageId, emoji)
sendReaction(s, c, messageId, emoji) ==
  sendMain([s EXCEPT !.messages[c] = [n \in DOMAIN @ |-> LET msg == @[n] IN
             IF msg.id = messageId
             THEN SetField(msg, "reactions",
                           Append(Field(msg, "reactions", <<>>),
                                  [emoji |-> emoji, sender |-> "me"]))
             ELSE msg]],
           c, [type |-> "reaction", payload |-> emoji, messageId |-> messageId])

\* an editMessage that rebuilds the edited entry as a newly sent one
editMessageAsNew(s, c, messageId, newText) ==
  sendMain([s EXCEPT !.messages[c] = [n \in DOMAIN @ |-> LET msg == @[n] IN
             IF msg.id = messageId
             THEN SetField(SetField(SetField(msg, "text", newText), "isEdited", TRUE),
                           "status", "sent")
             ELSE msg]],
           c, [type |-> "edit_message", payload |-> newText, messageId |-> messageId])

\* editMessage(messageId, newText)
editMessage(s, c, messageId, newText) ==
  sendMain([s EXCEPT !.messages[c] = [n \in DOMAIN @ |-> LET msg == @[n] IN
             IF msg.id = messageId
             THEN SetField(SetField(msg, "text", newText), "isEdited", TRUE)
             ELSE msg]],
           c, [type |-> "edit_message", payload |-> newText, messageId |-> messageId])

\* sendTyping(isTyping), sendRecording(isRecording), sendVanishMode(isEnabled)
sendTyping(s, c, isTyping) == sendMain(s, c, [type |-> "typing", payload |-> isTyping])
sendRecording(s, c, isRecording) ==
  sendMain(s, c, [type |-> "recording", payload |-> isRecording])
sendVanishMode(s, c, isEnabled) ==
  sendMain(s, c, [type |-> "vanish_mode", payload |-> isEnabled])

\* -------------------------------------------------- friends and direct chat
\* sendFriendRequest
sendFriendRequest(s, c) ==
  sendMain(s, c, [type |-> "friend_request", payload |-> userProfile(c)])

\* callPeer(targetPeerId, targetProfile), as created by the render whose status is `cap`
callPeer(s, c, target, targetProfile, cap) ==
  LET s0 == IF targetProfile # NoPeer
            THEN saveToRecent(s, c, targetProfile, target, 0) ELSE s
      s1 == initPeer(s0, c, cap)
  IN
  IF s1.directConnsRef[c][target] = NoConn
  THEN setupConnection(captured(peerConnect(s1, c, target, "direct"),
                                c, NewConnId(s1), s.friends[c]),
                       c, NewConnId(s1), "direct", cap)
  ELSE s1

\* sendDirectMessage(targetPeerId, text, id)
sendDirectMessage(s, c, target, text, id, cap) ==
  LET had == s.directConnsRef[c][target]
      s1 == IF had = NoConn /\ s.peerRef[c] # "none"
            THEN setupConnection(captured(peerConnect(s, c, target, "direct"),
                                          c, NewConnId(s), s.friends[c]),
                                 c, NewConnId(s), "direct", cap)
            ELSE s
      conn == s1.directConnsRef[c][target]
  IN IF conn # NoConn
     THEN send(s1, c, conn, [type |-> "message", payload |-> text,
                             dataType |-> "text", id |-> id])
     ELSE s1

\* sendDirectFriendRequest(targetPeerId)
sendDirectFriendRequest(s, c, target, cap) ==
  LET conn == s.directConnsRef[c][target] IN
  IF IsOpen(s, conn, c)
  THEN send(s, c, conn, [type |-> "friend_request", payload |-> userProfile(c)])
  ELSE IF s.peerRef[c] # "none"
  THEN [setupConnection(captured(peerConnect(s, c, target, "direct"),
                                 c, NewConnId(s), s.friends[c]),
                        c, NewConnId(s), "direct", cap)
          EXCEPT !.conns[NewConnId(s)].extra = "friend_request"]
  ELSE s

\* acceptFriendRequest(request), request.peerId = target
acceptFriendRequest(s, c, target, profile) ==
  LET s1 == saveFriend(s, c, profile, target)
      accept == [type |-> "friend_accept", payload |-> userProfile(c)]
      directConn == s1.directConnsRef[c][target]
      s2 == IF IsOpen(s1, directConn, c) THEN send(s1, c, directConn, accept)
            ELSE IF s1.mainConnRef[c] # NoConn /\ PeerOf(s1, s1.mainConnRef[c], c) = target
            THEN send(s1, c, s1.mainConnRef[c], accept)
            ELSE IF s1.peerRef[c] # "none"
            THEN [peerConnect(s1, c, target, "none")
                    EXCEPT !.conns[NewConnId(s1)].extra = "friend_accept"]
            ELSE s1
  IN [s2 EXCEPT !.friendRequests[c] = SelectSeq(@, LAMBDA req : req.peerId # target)]

\* updateMyProfile(newProfile), as created by the render whose status is
\* `cap`; ts is Date.now(). No branch of handleIncomingData takes the
\* profile_update envelope.
updateMyProfile(s, c, cap, ts) ==
  LET env == [type |-> "profile_update", payload |-> userProfile(c)]
      s1 == IF s.mainConnRef[c] # NoConn /\ cap = CONNECTED
            THEN send(s, c, s.mainConnRef[c], env) ELSE s
      s2 == [s1 EXCEPT !.conns = [k \in ConnIds |->
               IF \E p \in Peers : s1.directConnsRef[c][p] = k
               THEN send(s1, c, k, env).conns[k] ELSE s1.conns[k]]]
  IN IF s2.channelRef[c] # "none" /\ s2.peerRef[c] = "open"
     THEN IF cap = CONNECTED THEN track(s2, c, "busy", 0)
          ELSE track(s2, c, "waiting", ts)
     ELSE s2

\* rejectFriendRequest(peerId)
rejectFriendRequest(s, c, peerId) ==
  [s EXCEPT !.friendRequests[c] = SelectSeq(@, LAMBDA req : req.peerId # peerId)]

\* setupConnection was run on the endpoint of k that client c holds; the
\* connection that acceptFriendRequest opens gets no setupConnection
hasListeners(s, c, k) == ~(s.conns[k].kind = "none" /\ s.conns[k].from = c)

\* the additional 'open' listener that sendDirectFriendRequest and
\* acceptFriendRequest put on the connection they create
onExtraOpen(s, c, k) ==
  CASE s.conns[k].extra = "friend_request" ->
         [send(s, c, k, [type |-> "friend_request", payload |-> userProfile(c)])
            EXCEPT !.conns[k].extra = "none"]
    [] s.conns[k].extra = "friend_accept" ->
         [send(s, c, k, [type |-> "friend_accept", payload |-> userProfile(c)])
            EXCEPT !.conns[k].extra = "closing"]
    [] OTHER -> s

\* the 'open' event of connection k at client c: every listener registered
\* on it runs, setupConnection's first
connOpened(s, c, k) ==
  IF ~hasListeners(s, c, k)
  THEN onExtraOpen([s EXCEPT !.conns[k].st.a = "open"], c, k)
  ELSE IF s.conns[k].from = c THEN onExtraOpen(onConnOpen(s, c, k), c, k)
  ELSE onConnOpen(s, c, k)

\* the 'close', 'error' and 'data' events of connection k at client c
connClosed(s, c, k) ==
  IF hasListeners(s, c, k) THEN onConnClose(s, c, k)
  ELSE [s EXCEPT !.conns[k].st.a = "closed", !.conns[k].q.a = <<>>]
connErrored(s, c, k) ==
  IF hasListeners(s, c, k) THEN onConnError(s, c, k)
  ELSE [s EXCEPT !.conns[k].st.a = "closed", !.conns[k].q.a = <<>>]
connData(s, c, k, data) ==
  IF hasListeners(s, c, k) THEN handleIncomingData(s, c, k, data) ELSE s

\* setTimeout(() => conn.close(), 1000) of acceptFriendRequest
acceptCloseTimer(s, k) ==
  [s EXCEPT !.conns[k].st.a = "closed", !.conns[k].q.a = <<>>,
            !.conns[k].extra = "none"]

\* ---------------------------------------------------------- matchmaking
\* stable sort by timestamp, as Array.prototype.sort((a, b) => a.timestamp - b.timestamp)
RECURSIVE SortByTimestamp(_)
InsertByTimestamp(sorted, u) ==
  LET before == SelectSeq(sorted, LAMBDA x : x.timestamp <= u.timestamp)
      after == SelectSeq(sorted, LAMBDA x : x.timestamp > u.timestamp)
  IN before \o <<u>> \o after
SortByTimestamp(seq) ==
  IF seq = <<>> THEN <<>>
  ELSE InsertByTimestamp(SortByTimestamp(SubSeq(seq, 1, Len(seq) - 1)), seq[Len(seq)])

\* the waiting entries in snapshot order, the sort left out
sortedWaitersUnsorted(allUsers) ==
  SelectSeq(allUsers, LAMBDA u : u.status = "waiting")

sortedWaiters(allUsers) ==
  SortByTimestamp(SelectSeq(allUsers, LAMBDA u : u.status = "waiting"))

\* channel.presenceState() flattened: the entries present, in the order `order`
Present(s) == {p \in Peers : s.presence[p] # NoEntry}
Orders(S) == {o \in [1..Cardinality(S) -> S] : \A i, j \in DOMAIN o : o[i] = o[j] => i = j}
allUsersOf(s, order) ==
  [i \in DOMAIN order |-> [peerId |-> order[i],
                           status |-> s.presence[order[i]].status,
                           timestamp |-> s.presence[order[i]].timestamp]]

\* the presence 'sync' handler of joinLobby(myId = c)
presenceSync(s, c, allUsers) ==
  IF s.isMatchmakerRef[c] \/ IsOpen(s, s.mainConnRef[c], c) THEN s
  ELSE LET sw == sortedWaiters(allUsers) IN
       IF sw # <<>> /\ sw[1].peerId # c
       THEN LET s1 == [s EXCEPT !.isMatchmakerRef[c] = TRUE]
                s2 == setupConnection(
                        captured(peerConnect(s1, c, sw[1].peerId, "random"),
                                 c, NewConnId(s1), s.lobbyFriends[c]),
                        c, NewConnId(s1), "random", s.lobbyStatus[c])
            IN [s2 EXCEPT !.connectionTimeoutRef[c] = TRUE]
       ELSE s

\* the callback of the match-attempt timeout
connectionTimeout(s, c) ==
  LET s1 == [s EXCEPT !.connectionTimeoutRef[c] = FALSE] IN
  IF s1.isMatchmakerRef[c] /\ ~IsOpen(s1, s1.mainConnRef[c], c)
  THEN [s1 EXCEPT !.isMatchmakerRef[c] = FALSE, !.mainConnRef[c] = NoConn]
  ELSE s1

\* the subscribe callback of joinLobby up to its `await channel.track(...)`
subscribed(s, c, ts) ==
  [track([s EXCEPT !.channelRef[c] = "subscribed"], c, "waiting", ts)
     EXCEPT !.trackPending[c] = @ + 1]

\* ... and after the await
trackDone(s, c) ==
  [s EXCEPT !.status[c] = WAITING, !.isConnectingRef[c] = FALSE,
            !.trackPending[c] = @ - 1]

\* peer.on('open'): myPeerIdRef is set, then the joinLobby connect() registered
peerOpen(s, c) ==
  LET s1 == [s EXCEPT !.peerRef[c] = "open", !.joinOnOpen[c] = FALSE] IN
  IF s.joinOnOpen[c] THEN joinLobby(s1, c, s.lobbyStatus[c]) ELSE s1

\* peer.on('error') with type 'unavailable-id': the handler only logs; the
\* signalling server refused the persistent id, the peer is destroyed and
\* never opens
onUnavailableId(s, c) == [s EXCEPT !.peerRef[c] = "destroyed"]

\* peer.on('connection'): the callee's endpoint of connection k appears
peerConnection(s, k) ==
  LET c == s.conns[k].to
      s1 == [s EXCEPT !.conns[k].st.b = "pending"]
  IN setupConnection(captured(s1, c, k, s.peerFriends[c]), c, k,
                     s.conns[k].kind, s.peerStatus[c])

\* ----------------------------------------------------------- SocialHub
\* the effect on incomingDirectMessage; quota: localStorage.setItem throws
directMessageEffect(s, c, quota) ==
  IF s.incomingDirectMessage[c] = NoDirect THEN s
  ELSE LET peerId == s.incomingDirectMessage[c].peerId
           message == s.incomingDirectMessage[c].message
           stored == s.socialHub[c].chatHistory[peerId]
           history == Append(stored, message)
       IN IF \E i \in DOMAIN stored : stored[i].id = message.id THEN s
          ELSE IF quota THEN [s EXCEPT !.socialHub[c].uncaught = TRUE]
          ELSE IF s.socialHub[c].activePeer = peerId
          THEN [s EXCEPT !.socialHub[c].chatHistory[peerId] = history,
                         !.socialHub[c].localChatHistory = history]
          ELSE [s EXCEPT !.socialHub[c].chatHistory[peerId] = history]

\* openPrivateChat(peerId, profile): onCallPeer is the hook's callPeer; then
\* the effects on activePeer run: the stored history of that peer is loaded,
\* and the effect on incomingDirectMessage runs again
openPrivateChat(s, c, peerId, profile, quota, cap) ==
  LET s1 == callPeer(s, c, peerId, profile, cap)
      s2 == [s1 EXCEPT !.socialHub[c].activePeer = peerId,
                       !.socialHub[c].localChatHistory =
                          s.socialHub[c].chatHistory[peerId]]
  IN IF profile = NoPeer THEN s ELSE directMessageEffect(s2, c, quota)

\* conn.on('data') of the hook, then the effect when the hook has set
\* incomingDirectMessage
hubConnData(s, c, k, data, quota) ==
  LET s1 == connData(s, c, k, data) IN
  IF hasListeners(s, c, k) /\ data.type = "message" /\ ~isMain(s, c, k)
  THEN directMessageEffect(s1, c, quota) ELSE s1

\* addMessageToLocal(msg, peerId)
addMessageToLocal(s, c, msg, peerId, quota) ==
  LET history == Append(s.socialHub[c].chatHistory[peerId], msg)
      s1 == IF quota THEN s ELSE [s EXCEPT !.socialHub[c].chatHistory[peerId] = history]
  IN IF s.socialHub[c].activePeer = peerId
     THEN [s1 EXCEPT !.socialHub[c].localChatHistory = history] ELSE s1

\* handlePrivateSubmit with the input text and the new id
handlePrivateSubmit(s, c, text, id, quota, cap) ==
  LET activePeer == s.socialHub[c].activePeer
      newMsg == [id |-> id, text |-> text, sender |-> "me", type |-> "text",
                 reactions |-> <<>>, status |-> "sent"]
  IN IF activePeer = NoPeer THEN s
     ELSE sendDirectMessage(addMessageToLocal(s, c, newMsg, activePeer, quota),
                            c, activePeer, text, id, cap)

\* handleReactionSend(messageId, emoji); the hook exports no
\* sendDirectReaction
handleReactionSend(s, c, messageId, emoji, quota) ==
  LET activePeer == s.socialHub[c].activePeer
      prev == s.socialHub[c].localChatHistory
      updated == [n \in DOMAIN prev |->
                    IF prev[n].id = messageId
                    THEN SetField(prev[n], "reactions",
                                  Append(Field(prev[n], "reactions", <<>>),
                                         [emoji |-> emoji, sender |-> "me"]))
                    ELSE prev[n]]
  IN IF activePeer = NoPeer THEN sendReaction(s, c, messageId, emoji)
     ELSE IF quota THEN [s EXCEPT !.socialHub[c].uncaught = TRUE]
     ELSE [s EXCEPT !.socialHub[c].chatHistory[activePeer] = updated,
                    !.socialHub[c].localChatHistory = updated]

\* ------------------------------------------------------- state machine
Bounded(s) ==
  /\ \A c \in Peers : s.closeTimers[c] <= MaxCloseTimers /\ s.trackPending[c] <= MaxTrackPending
  /\ \A k \in ConnIds : Len(s.conns[k].q.a) <= MaxQueue /\ Len(s.conns[k].q.b) <= MaxQueue

Commit(s) ==
  \E r \in {s} : \E n \in {Collect(r)} :
  /\ Bounded(n)
  /\ status' = n.status
  /\ messages' = n.messages
  /\ partnerProfile' = n.partnerProfile
  /\ partnerPeerId' = n.partnerPeerId
  /\ peerRef' = n.peerRef
  /\ mainConnRef' = n.mainConnRef
  /\ directConnsRef' = n.directConnsRef
  /\ channelRef' = n.channelRef
  /\ isMatchmakerRef' = n.isMatchmakerRef
  /\ isConnectingRef' = n.isConnectingRef
  /\ connectionTimeoutRef' = n.connectionTimeoutRef
  /\ closeTimers' = n.closeTimers
  /\ trackPending' = n.trackPending
  /\ joinOnOpen' = n.joinOnOpen
  /\ lobbyStatus' = n.lobbyStatus
  /\ peerStatus' = n.peerStatus
  /\ presence' = n.presence
  /\ conns' = n.conns
  /\ partnerTyping' = n.partnerTyping
  /\ partnerRecording' = n.partnerRecording
  /\ typingTimeoutRef' = n.typingTimeoutRef
  /\ recordingTimeoutRef' = n.recordingTimeoutRef
  /\ remoteVanishMode' = n.remoteVanishMode
  /\ incomingDirectMessage' = n.incomingDirectMessage
  /\ friends' = n.friends
  /\ friendRequests' = n.friendRequests
  /\ recents' = n.recents
  /\ error' = n.error
  /\ socialHub' = n.socialHub
  /\ lobbyFriends' = n.lobbyFriends
  /\ peerFriends' = n.peerFriends

\* SocialHub after it is mounted in a browser that holds no chat history
HubMounted ==
  [activePeer |-> NoPeer, localChatHistory |-> <<>>,
   chatHistory |-> [p \in Peers |-> <<>>], uncaught |-> FALSE]

\* the refs and the React state of every client after the hook is mounted
HookMounted ==
  /\ status = [c \in Peers |-> IDLE]
  /\ messages = [c \in Peers |-> <<>>]
  /\ partnerProfile = [c \in Peers |-> NoPeer]
  /\ partnerPeerId = [c \in Peers |-> NoPeer]
  /\ peerRef = [c \in Peers |-> "none"]
  /\ mainConnRef = [c \in Peers |-> NoConn]
  /\ directConnsRef = [c \in Peers |-> [p \in Peers |-> NoConn]]
  /\ channelRef = [c \in Peers |-> "none"]
  /\ isMatchmakerRef = [c \in Peers |-> FALSE]
  /\ isConnectingRef = [c \in Peers |-> FALSE]
  /\ connectionTimeoutRef = [c \in Peers |-> FALSE]
  /\ closeTimers = [c \in Peers |-> 0]
  /\ trackPending = [c \in Peers |-> 0]
  /\ joinOnOpen = [c \in Peers |-> FALSE]
  /\ lobbyStatus = [c \in Peers |-> IDLE]
  /\ peerStatus = [c \in Peers |-> IDLE]
  /\ presence = [c \in Peers |-> NoEntry]
  /\ conns = [k \in ConnIds |-> FreeConn]
  /\ partnerTyping = [c \in Peers |-> FALSE]
  /\ partnerRecording = [c \in Peers |-> FALSE]
  /\ typingTimeoutRef = [c \in Peers |-> FALSE]
  /\ recordingTimeoutRef = [c \in Peers |-> FALSE]
  /\ remoteVanishMode = [c \in Peers |-> "null"]
  /\ incomingDirectMessage = [c \in Peers |-> NoDirect]
  /\ friends = [c \in Peers |-> <<>>]
  /\ friendRequests = [c \in Peers |-> <<>>]
  /\ error = [c \in Peers |-> "null"]
  /\ socialHub = [c \in Peers |-> HubMounted]
  /\ lobbyFriends = [c \in Peers |-> <<>>]
  /\ peerFriends = [c \in Peers |-> <<>>]

\* the state of every client after the hook is mounted in a browser whose
\* storage holds no recent peers
Mounted ==
  /\ HookMounted
  /\ recents = [c \in Peers |-> <<>>]

\* two clients that may disconnect and whose transport may fail
Init ==
  /\ Mounted
  /\ budget = [connect |-> [c \in Peers |-> IF c \in Pair THEN MaxConnects ELSE 0],
               disturb |-> MaxDisturbances, chat |-> 0, social |-> 0, recent |-> 0,
               profile |-> 0]

\* an API call by the user, an event of the environment, a transport failure
Event == UNCHANGED budget
Disturbance == budget.disturb > 0 /\ budget' = [budget EXCEPT !.disturb = @ - 1]
Fault == Disturbance
\* the other endpoint of connection k is gone
Gone(k, side) == conns[k].st[OtherSide(side)] = "closed"

\* user actions
Connect(c) ==
  /\ budget.connect[c] > 0
  /\ budget' = [budget EXCEPT !.connect[c] = @ - 1]
  /\ Commit(connect(State, c, status[c]))
Disconnect(c) == Disturbance /\ Commit(disconnect(State, c))

\* signalling and lobby events
PeerOpen(c) ==
  /\ Event
  /\ peerRef[c] = "attaching"
  /\ Commit(peerOpen(State, c))
UnavailableId(c) ==
  /\ Fault
  /\ peerRef[c] = "attaching"
  /\ Commit(onUnavailableId(State, c))
Subscribed(c) ==
  /\ Event
  /\ channelRef[c] = "joining"
  /\ \E ts \in Timestamps : Commit(subscribed(State, c, ts))
TrackDone(c) ==
  /\ Event
  /\ trackPending[c] > 0
  /\ Commit(trackDone(State, c))
PresenceSync(c) ==
  /\ Event
  /\ channelRef[c] = "subscribed"
  /\ FreeIds(State) # {}
  /\ \E order \in Orders(Present(State)) :
       Commit(presenceSync(State, c, allUsersOf(State, order)))

\* transport events
PeerConnection(k) ==
  /\ Event
  /\ conns[k].st.a = "pending"
  /\ conns[k].st.b = "none"
  /\ peerRef[conns[k].from] = "open"
  /\ peerRef[conns[k].to] = "open"
  /\ Commit(peerConnection(State, k))
PeerUnavailable(k) ==
  /\ Fault
  /\ conns[k].st.a = "pending"
  /\ conns[k].st.b = "none"
  /\ Commit(onPeerUnavailable(State, conns[k].from, k))
ConnOpen(k, side) ==
  /\ Event
  /\ conns[k].st[side] = "pending"
  /\ conns[k].st[OtherSide(side)] \in {"pending", "open"}
  /\ Commit(connOpened(State, Endpoint(State, k, side), k))
ConnClose(k, side) ==
  /\ conns[k].st[side] = "open"
  /\ IF Gone(k, side) THEN Event ELSE Fault
  /\ Commit(connClosed(State, Endpoint(State, k, side), k))
ConnError(k, side) ==
  /\ conns[k].st[side] = "pending"
  /\ IF Gone(k, side) THEN Event ELSE Fault
  /\ Commit(connErrored(State, Endpoint(State, k, side), k))
ConnData(k, side) ==
  /\ Event
  /\ conns[k].st[side] = "open"
  /\ conns[k].q[side] # <<>>
  /\ Commit(connData(
       [State EXCEPT !.conns[k].q[side] = Tail(@)],
       Endpoint(State, k, side), k, Head(conns[k].q[side])))

\* timers
ConnectionTimeout(c) ==
  /\ Event
  /\ connectionTimeoutRef[c]
  /\ Commit(connectionTimeout(State, c))
CleanupMainTimer(c) ==
  /\ Event
  /\ closeTimers[c] > 0
  /\ Commit(cleanupMainTimer(State, c))

\* an armed indicator expiry fires
TypingTimeout(c) ==
  /\ Event
  /\ typingTimeoutRef[c]
  /\ Commit(typingTimeout(State, c))
RecordingTimeout(c) ==
  /\ Event
  /\ recordingTimeoutRef[c]
  /\ Commit(recordingTimeout(State, c))

\* main-chat calls of the user; the chat controls are enabled while CONNECTED
ChatOp == budget.chat > 0 /\ budget' = [budget EXCEPT !.chat = @ - 1]
\* Date.now().toString() + a random suffix: an identifier never used before
NewMsgId == "m" \o ToString(budget.chat)
MessageIds(c) == {messages[c][i].id : i \in DOMAIN messages[c]}
SendMessage(c) ==
  /\ ChatOp
  /\ status[c] = CONNECTED
  /\ Commit(sendMessage(State, c, "hi", NewMsgId))
SendReaction(c) ==
  /\ ChatOp
  /\ status[c] = CONNECTED
  /\ \E m \in MessageIds(c) : Commit(sendReaction(State, c, m, "heart"))
EditMessage(c) ==
  /\ ChatOp
  /\ status[c] = CONNECTED
  /\ \E m \in MessageIds(c) : Commit(editMessage(State, c, m, "edited"))
SendIndicator(c) ==
  /\ ChatOp
  /\ status[c] = CONNECTED
  /\ \/ Commit(sendTyping(State, c, TRUE))
     \/ Commit(sendRecording(State, c, TRUE))
     \/ Commit(sendVanishMode(State, c, TRUE))

\* friend and direct-chat calls of the user
SocialOp == budget.social > 0 /\ budget' = [budget EXCEPT !.social = @ - 1]
NewDirectId == "d" \o ToString(budget.social)
Requesters(c) == {friendRequests[c][i].peerId : i \in DOMAIN friendRequests[c]}
SendFriendRequest(c) ==
  /\ SocialOp
  /\ status[c] = CONNECTED
  /\ Commit(sendFriendRequest(State, c))
AcceptFriendRequest(c) ==
  /\ SocialOp
  /\ FreeIds(State) # {}
  /\ \E i \in DOMAIN friendRequests[c] :
       Commit(acceptFriendRequest(State, c, friendRequests[c][i].peerId,
                                  friendRequests[c][i].profile))
RejectFriendRequest(c) ==
  /\ SocialOp
  /\ \E x \in Requesters(c) : Commit(rejectFriendRequest(State, c, x))
CallPeer(c) ==
  /\ SocialOp
  /\ FreeIds(State) # {}
  /\ \E target \in Pair \ {c} : \E targetProfile \in {NoPeer, userProfile(target)} :
       /\ peerRef[target] = "open"
       /\ Commit(callPeer(State, c, target, targetProfile, status[c]))
SendDirectMessage(c) ==
  /\ SocialOp
  /\ peerRef[c] = "open"
  /\ FreeIds(State) # {}
  /\ \E target \in Pair \ {c} :
       /\ peerRef[target] = "open"
       /\ Commit(sendDirectMessage(State, c, target, "hi", NewDirectId, status[c]))
SendDirectFriendRequest(c) ==
  /\ SocialOp
  /\ peerRef[c] = "open"
  /\ FreeIds(State) # {}
  /\ \E target \in Pair \ {c} :
       /\ peerRef[target] = "open"
       /\ Commit(sendDirectFriendRequest(State, c, target, status[c]))
AcceptCloseTimer(k) ==
  /\ Event
  /\ conns[k].extra = "closing"
  /\ Commit(acceptCloseTimer(State, k))

Next ==
  \/ \E c \in Peers : Connect(c)
  \/ \E c \in Peers : Disconnect(c)
  \/ \E c \in Peers : PeerOpen(c)
  \/ \E c \in Peers : UnavailableId(c)
  \/ \E c \in Peers : Subscribed(c)
  \/ \E c \in Peers : TrackDone(c)
  \/ \E c \in Peers : PresenceSync(c)
  \/ \E k \in ConnIds : PeerConnection(k)
  \/ \E k \in ConnIds : PeerUnavailable(k)
  \/ \E k \in ConnIds, side \in {"a", "b"} : ConnOpen(k, side)
  \/ \E k \in ConnIds, side \in {"a", "b"} : ConnClose(k, side)
  \/ \E k \in ConnIds, side \in {"a", "b"} : ConnError(k, side)
  \/ \E k \in ConnIds, side \in {"a", "b"} : ConnData(k, side)
  \/ \E c \in Peers : ConnectionTimeout(c)
  \/ \E c \in Peers : CleanupMainTimer(c)

Spec == Init /\ [][Next]_vars

\* three clients in the lobby, no disconnect and no transport failure
InitLobby ==
  /\ Mounted
  /\ budget = [connect |-> [c \in Peers |-> MaxConnects], disturb |-> 0,
               chat |-> 0, social |-> 0, recent |-> 0,
               profile |-> 0]

NextLobby ==
  \/ \E c \in Peers : Connect(c)
  \/ \E c \in Peers : PeerOpen(c)
  \/ \E c \in Peers : Subscribed(c)
  \/ \E c \in Peers : TrackDone(c)
  \/ \E c \in Peers : PresenceSync(c)
  \/ \E k \in ConnIds : PeerConnection(k)
  \/ \E k \in ConnIds, side \in {"a", "b"} : ConnOpen(k, side)
  \/ \E k \in ConnIds, side \in {"a", "b"} : ConnData(k, side)
  \/ \E c \in Peers : ConnectionTimeout(c)

SpecLobby == InitLobby /\ [][NextLobby]_vars

\* q and p have been matched by the lobby in their first session: q's
\* connection to p is open, the profiles are exchanged and every timer has
\* run.  Spec reaches this state by Connect(p), Connect(q), PeerOpen,
\* Subscribed and TrackDone at both, PresenceSync(q), PeerConnection,
\* ConnOpen at both ends, ConnData at both ends, ConnectionTimeout(q).
Matched(q, p) ==
  /\ status = [c \in Peers |-> IF c \in {p, q} THEN CONNECTED ELSE IDLE]
  /\ messages = [c \in Peers |->
       IF c = p THEN <<ConnectedWith(userProfile(q))>>
       ELSE IF c = q THEN <<ConnectedWith(userProfile(p))>> ELSE <<>>]
  /\ partnerProfile = [c \in Peers |->
       IF c = p THEN userProfile(q) ELSE IF c = q THEN userProfile(p) ELSE NoPeer]
  /\ partnerPeerId = [c \in Peers |-> IF c = p THEN q ELSE IF c = q THEN p ELSE NoPeer]
  /\ peerRef = [c \in Peers |-> IF c \in {p, q} THEN "open" ELSE "none"]
  /\ mainConnRef = [c \in Peers |-> IF c \in {p, q} THEN 1 ELSE NoConn]
  /\ directConnsRef = [c \in Peers |-> [x \in Peers |-> NoConn]]
  /\ channelRef = [c \in Peers |-> IF c \in {p, q} THEN "subscribed" ELSE "none"]
  /\ isMatchmakerRef = [c \in Peers |-> FALSE]
  /\ isConnectingRef = [c \in Peers |-> FALSE]
  /\ connectionTimeoutRef = [c \in Peers |-> FALSE]
  /\ closeTimers = [c \in Peers |-> 0]
  /\ trackPending = [c \in Peers |-> 0]
  /\ joinOnOpen = [c \in Peers |-> FALSE]
  /\ lobbyStatus = [c \in Peers |-> IDLE]
  /\ peerStatus = [c \in Peers |-> IDLE]
  /\ presence = [c \in Peers |->
       IF c \in {p, q} THEN [status |-> "busy", timestamp |-> 0] ELSE NoEntry]
  /\ conns = [k \in ConnIds |->
       IF k = 1
       THEN [FreeConn EXCEPT !.from = q, !.to = p, !.kind = "random",
                             !.st = [a |-> "open", b |-> "open"]]
       ELSE FreeConn]
  /\ partnerTyping = [c \in Peers |-> FALSE]
  /\ partnerRecording = [c \in Peers |-> FALSE]
  /\ typingTimeoutRef = [c \in Peers |-> FALSE]
  /\ recordingTimeoutRef = [c \in Peers |-> FALSE]
  /\ remoteVanishMode = [c \in Peers |-> "null"]
  /\ incomingDirectMessage = [c \in Peers |-> NoDirect]
  /\ friends = [c \in Peers |-> <<>>]
  /\ friendRequests = [c \in Peers |-> <<>>]
  /\ recents = [c \in Peers |->
       IF c = p THEN <<[peerId |-> q, profile |-> userProfile(q), metAt |-> 0]>>
       ELSE IF c = q THEN <<[peerId |-> p, profile |-> userProfile(p), metAt |-> 0]>> ELSE <<>>]
  /\ error = [c \in Peers |-> "null"]
  /\ socialHub = [c \in Peers |-> HubMounted]
  /\ lobbyFriends = [c \in Peers |-> <<>>]
  /\ peerFriends = [c \in Peers |-> <<>>]

\* a matched pair that uses the main chat; one of them may disconnect, or the
\* transport may fail
InitChat ==
  /\ \E q \in Pair : \E p \in Pair \ {q} : Matched(q, p)
  /\ budget = [connect |-> [c \in Peers |-> 0], disturb |-> MaxDisturbances,
               chat |-> MaxChatOps, social |-> 0, recent |-> 0,
               profile |-> 0]

NextChat ==
  \/ \E c \in Pair : SendMessage(c)
  \/ \E c \in Pair : SendReaction(c)
  \/ \E c \in Pair : EditMessage(c)
  \/ \E c \in Pair : SendIndicator(c)
  \/ \E c \in Pair : Disconnect(c)
  \/ \E k \in ConnIds, side \in {"a", "b"} : ConnClose(k, side)
  \/ \E k \in ConnIds, side \in {"a", "b"} : ConnData(k, side)
  \/ \E c \in Pair : CleanupMainTimer(c)
  \/ \E c \in Pair : TypingTimeout(c)
  \/ \E c \in Pair : RecordingTimeout(c)

SpecChat == InitChat /\ [][NextChat]_vars

\* a matched pair whose users start and stop typing and recording; an armed
\* browser timer that is not cleared fires after its delay
SetIndicator(c) ==
  /\ ChatOp
  /\ status[c] = CONNECTED
  /\ \E v \in BOOLEAN : \/ Commit(sendTyping(State, c, v))
                         \/ Commit(sendRecording(State, c, v))

NextIndicator ==
  \/ \E c \in Pair : SetIndicator(c)
  \/ \E c \in Pair : SendMessage(c)
  \/ \E c \in Pair : Disconnect(c)
  \/ \E k \in ConnIds, side \in {"a", "b"} : ConnClose(k, side)
  \/ \E k \in ConnIds, side \in {"a", "b"} : ConnData(k, side)
  \/ \E c \in Pair : CleanupMainTimer(c)
  \/ \E c \in Pair : TypingTimeout(c)
  \/ \E c \in Pair : RecordingTimeout(c)

SpecIndicator ==
  /\ InitChat
  /\ [][NextIndicator]_vars
  /\ \A c \in Pair : WF_vars(TypingTimeout(c))
  /\ \A c \in Pair : WF_vars(RecordingTimeout(c))

\* a matched pair that call each other and befriend each other
InitSocial ==
  /\ \E q \in Pair : \E p \in Pair \ {q} : Matched(q, p)
  /\ budget = [connect |-> [c \in Peers |-> 0], disturb |-> MaxDisturbances,
               chat |-> 0, social |-> MaxSocialOps, recent |-> 0,
               profile |-> 0]

NextSocial ==
  \/ \E c \in Pair : SendFriendRequest(c)
  \/ \E c \in Pair : AcceptFriendRequest(c)
  \/ \E c \in Pair : RejectFriendRequest(c)
  \/ \E c \in Pair : CallPeer(c)
  \/ \E c \in Pair : SendDirectMessage(c)
  \/ \E c \in Pair : SendDirectFriendRequest(c)
  \/ \E c \in Pair : Disconnect(c)
  \/ \E k \in ConnIds : PeerConnection(k)
  \/ \E k \in ConnIds : PeerUnavailable(k)
  \/ \E k \in ConnIds, side \in {"a", "b"} : ConnOpen(k, side)
  \/ \E k \in ConnIds, side \in {"a", "b"} : ConnClose(k, side)
  \/ \E k \in ConnIds, side \in {"a", "b"} : ConnError(k, side)
  \/ \E k \in ConnIds, side \in {"a", "b"} : ConnData(k, side)
  \/ \E c \in Pair : CleanupMainTimer(c)
  \/ \E k \in ConnIds : AcceptCloseTimer(k)

SpecSocial == InitSocial /\ [][NextSocial]_vars

\* the usernames of the peers a client meets
RecentNames == {"u" \o ToString(n) : n \in 1..MaxNames}
\* localStorage 'recent_peers' after the peers u1 .. un were saved in this
\* order, at the times 1 .. n
RecentList(n) ==
  [i \in 1..n |-> [peerId |-> "u" \o ToString(n - i + 1),
                   profile |-> "u" \o ToString(n - i + 1),
                   metAt |-> n - i + 1]]
\* Date.now() of the next call of saveToRecent
Now == RecentCap + (MaxRecentOps - budget.recent) + 1

\* clients whose storage holds up to RecentCap recent peers
InitRecent ==
  /\ HookMounted
  /\ \E n \in 0..RecentCap : recents = [c \in Peers |-> RecentList(n)]
  /\ budget = [connect |-> [c \in Peers |-> 0], disturb |-> 0,
               chat |-> 0, social |-> 0, recent |-> MaxRecentOps,
               profile |-> 0]

\* a call of saveToRecent for a peer that client c met
SaveToRecent(c) ==
  /\ budget.recent > 0
  /\ budget' = [budget EXCEPT !.recent = @ - 1]
  /\ \E u \in RecentNames : Commit(saveToRecent(State, c, u, u, Now))

NextRecent == \E c \in Pair : SaveToRecent(c)

SpecRecent == InitRecent /\ [][NextRecent]_vars

\* two clients that may edit their profile and disconnect; the transport may
\* close a connection, and no attempt fails or times out
InitProfile ==
  /\ Mounted
  /\ budget = [connect |-> [c \in Peers |-> IF c \in Pair THEN MaxConnects ELSE 0],
               disturb |-> MaxDisturbances, chat |-> 0, social |-> 0, recent |-> 0,
               profile |-> MaxProfileOps]

UpdateMyProfile(c) ==
  /\ budget.profile > 0
  /\ budget' = [budget EXCEPT !.profile = @ - 1]
  /\ \E ts \in Timestamps : Commit(updateMyProfile(State, c, status[c], ts))

NextProfile ==
  \/ \E c \in Pair : Connect(c)
  \/ \E c \in Pair : UpdateMyProfile(c)
  \/ \E c \in Pair : Disconnect(c)
  \/ \E c \in Peers : PeerOpen(c)
  \/ \E c \in Peers : Subscribed(c)
  \/ \E c \in Peers : TrackDone(c)
  \/ \E c \in Peers : PresenceSync(c)
  \/ \E k \in ConnIds : PeerConnection(k)
  \/ \E k \in ConnIds, side \in {"a", "b"} : ConnOpen(k, side)
  \/ \E k \in ConnIds, side \in {"a", "b"} : ConnClose(k, side)
  \/ \E k \in ConnIds, side \in {"a", "b"} : ConnData(k, side)
  \/ \E c \in Peers : CleanupMainTimer(c)

SpecProfile == InitProfile /\ [][NextProfile]_vars

\* a matched pair that use the private chat of SocialHub; any write to
\* localStorage may exceed the quota
InitHub ==
  /\ \E q \in Pair : \E p \in Pair \ {q} : Matched(q, p)
  /\ budget = [connect |-> [c \in Peers |-> 0], disturb |-> 0,
               chat |-> 0, social |-> MaxHubOps, recent |-> 0,
               profile |-> 0]

HubIds(c) ==
  IF socialHub[c].activePeer = NoPeer THEN MessageIds(c)
  ELSE {socialHub[c].localChatHistory[i].id : i \in DOMAIN socialHub[c].localChatHistory}
OpenPrivateChat(c) ==
  /\ SocialOp
  /\ ~socialHub[c].uncaught
  /\ \E peerId \in Pair \ {c} : \E quota \in BOOLEAN :
       /\ FreeIds(State) # {} \/ directConnsRef[c][peerId] # NoConn
       /\ Commit(openPrivateChat(State, c, peerId, userProfile(peerId), quota,
                                 status[c]))
PrivateSubmit(c) ==
  /\ SocialOp
  /\ ~socialHub[c].uncaught
  /\ socialHub[c].activePeer # NoPeer
  /\ FreeIds(State) # {} \/ directConnsRef[c][socialHub[c].activePeer] # NoConn
  /\ \E quota \in BOOLEAN :
       Commit(handlePrivateSubmit(State, c, "hi", NewDirectId, quota, status[c]))
ReactionSend(c) ==
  /\ SocialOp
  /\ ~socialHub[c].uncaught
  /\ \E m \in HubIds(c) : \E quota \in BOOLEAN :
       Commit(handleReactionSend(State, c, m, "heart", quota))
HubConnData(k, side) ==
  /\ Event
  /\ conns[k].st[side] = "open"
  /\ conns[k].q[side] # <<>>
  /\ ~socialHub[Endpoint(State, k, side)].uncaught
  /\ \E quota \in BOOLEAN :
       Commit(hubConnData(
         [State EXCEPT !.conns[k].q[side] = Tail(@)],
         Endpoint(State, k, side), k, Head(conns[k].q[side]), quota))

NextHub ==
  \/ \E c \in Pair : OpenPrivateChat(c)
  \/ \E c \in Pair : PrivateSubmit(c)
  \/ \E c \in Pair : ReactionSend(c)
  \/ \E k \in ConnIds : PeerConnection(k)
  \/ \E k \in ConnIds, side \in {"a", "b"} : ConnOpen(k, side)
  \/ \E k \in ConnIds, side \in {"a", "b"} : HubConnData(k, side)

SpecHub == InitHub /\ [][NextHub]_vars

\* =========================================================== properties
\* connection k is of main kind (metadata type 'random') and open at client c
MainKindOpenAt(c) ==
  {k \in ConnIds : /\ conns[k].kind = "random"
                   /\ \/ conns[k].from = c /\ conns[k].st.a = "open"
                      \/ conns[k].to = c /\ conns[k].st.b = "open"}
DirectOpenAt(c, p) ==
  {k \in ConnIds : /\ conns[k].kind = "direct"
                   /\ \/ conns[k].from = c /\ conns[k].to = p /\ conns[k].st.a = "open"
                      \/ conns[k].to = c /\ conns[k].from = p /\ conns[k].st.b = "open"}
\* this step creates an outbound main-kind connection of client c
NewAttempt(c) ==
  \E k \in ConnIds : conns[k] = FreeConn /\ conns'[k].from = c /\ conns'[k].kind = "random"
\* the match attempt of client c that is in flight: recorded, unopened, its
\* timeout still armed
InFlight(c) ==
  /\ mainConnRef[c] # NoConn
  /\ conns[mainConnRef[c]].from = c
  /\ conns[mainConnRef[c]].kind = "random"
  /\ conns[mainConnRef[c]].st.a = "pending"
  /\ connectionTimeoutRef[c]
WaitingPeers == {p \in Peers : presence[p].status = "waiting"}
\* p is older than every other waiting entry
StrictlyOldest(p) ==
  /\ p \in WaitingPeers
  /\ \A w \in WaitingPeers \ {p} : presence[p].timestamp < presence[w].timestamp
\* client c is searching with no open main connection and receives snapshots
Searching(c) ==
  /\ status[c] \in {SEARCHING, WAITING}
  /\ channelRef[c] = "subscribed"
  /\ ~isMatchmakerRef[c]
  /\ ~IsOpen(State, mainConnRef[c], c)
\* in state r client c has just started a match attempt k towards target
Attempting(r, c, k, target) ==
  /\ r.mainConnRef[c] = k
  /\ r.conns[k].from = c
  /\ r.conns[k].to = target
  /\ r.conns[k].kind = "random"
  /\ r.conns[k].st.a = "pending"

\* C1: at every client at most one main-kind connection is alive at a time,
\* and at most one direct connection per peer identifier.
C1_AtMostOneMain ==
  \A c \in Peers :
    /\ Cardinality(MainKindOpenAt(c)) <= 1
    /\ \A p \in Peers : Cardinality(DirectOpenAt(c, p)) <= 1

\* the chain of handlers of Scenario A run from the current state: the
\* younger client q processes the snapshot, its connection reaches p, and
\* the connection opens at both ends
ScenarioA(q, p, order) ==
  LET k == NewConnId(State)
      s1 == presenceSync(State, q, allUsersOf(State, order))
      s2 == peerConnection(s1, k)
      s3 == onConnOpen(s2, q, k)
  IN onConnOpen(s3, p, k)

C3_SingleAttempt ==
  [][\A c \in Peers : InFlight(c) => ~NewAttempt(c)]_vars

C5_DisconnectedIsTerminal ==
  [][\A c \in Peers :
       (status[c] = DISCONNECTED /\ ~joinOnOpen[c] /\ ~Connect(c))
       => (status'[c] = DISCONNECTED /\ ~NewAttempt(c))]_vars

\* C6: the session state changes only along the lifecycle: SEARCHING only by
\* a connect request, WAITING only from SEARCHING, CONNECTED only from
\* SEARCHING or WAITING, DISCONNECTED only from CONNECTED or by a call of
\* connect()/disconnect(), and never back to IDLE.
C6_Lifecycle ==
  [][\A c \in Peers :
       status'[c] # status[c] =>
         CASE status'[c] = SEARCHING -> Connect(c) \/ joinOnOpen[c]
           [] status'[c] = WAITING -> status[c] = SEARCHING
           [] status'[c] = CONNECTED -> status[c] \in {SEARCHING, WAITING}
           [] status'[c] = DISCONNECTED ->
                status[c] = CONNECTED \/ Connect(c) \/ Disconnect(c)
           [] OTHER -> FALSE]_vars

\* C7: when the timeout of an unopened match attempt fires, the in-flight flag
\* is false and the main slot is empty afterwards.
C7_TimeoutClearsMain ==
  [][\A c \in Peers :
       (ConnectionTimeout(c) /\ InFlight(c))
       => (~isMatchmakerRef'[c] /\ mainConnRef'[c] = NoConn)]_vars

\* the match attempt of client c failed before it opened: the connection
\* reported an error or the peer was unavailable, or its timeout fired
FailedAttempt(c) ==
  /\ mainConnRef[c] # NoConn
  /\ conns[mainConnRef[c]].from = c
  /\ conns[mainConnRef[c]].kind = "random"
  /\ \/ conns[mainConnRef[c]].st.a = "closed"
     \/ conns[mainConnRef[c]].st.a = "pending" /\ ~connectionTimeoutRef[c]

C9_StaleOpenDiscarded ==
  [][\A c \in Peers :
       (/\ status[c] = DISCONNECTED
        /\ closeTimers[c] > 0
        /\ mainConnRef[c] # NoConn
        /\ conns[mainConnRef[c]].from = c
        /\ conns[mainConnRef[c]].kind = "random"
        /\ conns[mainConnRef[c]].st.a = "pending"
        /\ ConnOpen(mainConnRef[c], "a"))
       => (/\ ~isMatchmakerRef'[c]
           /\ status'[c] # CONNECTED
           /\ messages'[c] # <<INITIAL_GREETING>>)]_vars

\* C10: when the transport of the current main connection closes while the
\* session is CONNECTED, the session becomes DISCONNECTED and the history
\* is cleared.
C10_CloseDisconnects ==
  [][\A k \in ConnIds : \A side \in {"a", "b"} :
       (/\ ConnClose(k, side)
        /\ mainConnRef[Endpoint(State, k, side)] = k
        /\ status[Endpoint(State, k, side)] = CONNECTED)
       => (/\ status'[Endpoint(State, k, side)] = DISCONNECTED
           /\ messages'[Endpoint(State, k, side)] = <<>>)]_vars

\* ---------------------------------------------------------------------------
\* Envelope handling, friends

\* the connections on which client c can receive data: open at c, with the
\* data listener installed
Receiving(c) ==
  {k \in ConnIds : /\ c \in {conns[k].from, conns[k].to}
                   /\ IsOpen(State, k, c)
                   /\ hasListeners(State, c, k)}

\* C11: a disconnect envelope received on the main connection sets the state
\* to DISCONNECTED, empties the history and empties the main slot; received on
\* any other connection it removes that peer's entry from the direct registry
\* and leaves the state, the history and the main slot as they were.
C11_DisconnectEnvelope ==
  \A c \in Peers : \A k \in Receiving(c) :
    LET r == handleIncomingData(State, c, k, [type |-> "disconnect"]) IN
    IF k = mainConnRef[c]
    THEN /\ r.status[c] = DISCONNECTED
         /\ r.messages[c] = <<>>
         /\ r.mainConnRef[c] = NoConn
    ELSE /\ r.directConnsRef[c][PeerOf(State, k, c)] = NoConn
         /\ r.status[c] = status[c]
         /\ r.messages[c] = messages[c]
         /\ r.mainConnRef[c] = mainConnRef[c]

\* a client that can receive on its main connection, with a history, and on a
\* registered direct connection
C11_Witness ==
  \E c \in Peers : \E k, d \in Receiving(c) :
    /\ k = mainConnRef[c] /\ status[c] = CONNECTED /\ messages[c] # <<>>
    /\ d # k /\ directConnsRef[c][PeerOf(State, d, c)] = d

\* C12: after any disconnection of the main session (by disconnect() or by
\* the partner's disconnect envelope) the partner profile is null, the typing
\* and recording indicators are false, the remote-vanish flag is null and the
\* client's published presence status is idle.
C12_DisconnectClearsPartner ==
  [][\A c \in Peers :
       (status[c] = CONNECTED /\ status'[c] = DISCONNECTED) =>
         /\ partnerProfile'[c] = NoPeer
         /\ partnerTyping'[c] = FALSE
         /\ partnerRecording'[c] = FALSE
         /\ remoteVanishMode'[c] = "null"
         /\ presence'[c].status = "idle"]_vars

\* the payloads and ids of the envelopes applied to the handlers below
Texts == {"hi"}
FreshIds == {"x1"}
TextEnvelope(p, m) == [type |-> "message", payload |-> p, dataType |-> "text", id |-> m]

\* r is s after client c took a text envelope (p, m) on connection k as a
\* main-session message: one entry appended last, with id m, sender stranger
\* and text p, and a seen receipt for m queued to the other end of k
AppendedAndSeen(s, r, c, k, p, m) ==
  LET other == OtherSide(SideOf(s, k, c))
      n == Len(s.messages[c])
  IN /\ Len(r.messages[c]) = n + 1
     /\ SubSeq(r.messages[c], 1, n) = s.messages[c]
     /\ r.messages[c][n + 1].id = m
     /\ r.messages[c][n + 1].sender = "stranger"
     /\ Field(r.messages[c][n + 1], "text", "undefined") = p
     /\ s.conns[k].st[other] \in {"pending", "open"} =>
          r.conns[k].q[other] =
            Append(s.conns[k].q[other], [type |-> "seen", messageId |-> m])

\* C13: for every message envelope {type: message, payload p, dataType text,
\* id m} received on the main connection, the history gains exactly one entry,
\* appended last, with id m, sender stranger, text p and status "sent", and a
\* {type: seen, messageId: m} envelope is sent on the same connection.
C13_MainMessage ==
  \A c \in Peers : \A k \in Receiving(c) : \A p \in Texts : \A m \in FreshIds :
    k = mainConnRef[c] =>
      LET r == handleIncomingData(State, c, k, TextEnvelope(p, m)) IN
      /\ AppendedAndSeen(State, r, c, k, p, m)
      /\ Field(r.messages[c][Len(r.messages[c])], "status", "undefined") = "sent"

\* r is s after client c took an envelope with id m on connection k: exactly
\* one seen receipt for m was queued to the other end of k
SeenSent(s, r, c, k, m) ==
  LET other == OtherSide(SideOf(s, k, c)) IN
  s.conns[k].st[other] \in {"pending", "open"} =>
    r.conns[k].q[other] =
      Append(s.conns[k].q[other], [type |-> "seen", messageId |-> m])

\* C14: every inbound message envelope, on the main connection or on a direct
\* connection, triggers exactly one outbound seen envelope with the same
\* message id on the connection it arrived on.
C14_SeenForEveryMessage ==
  \A c \in Peers : \A k \in Receiving(c) : \A p \in Texts : \A m \in FreshIds :
    SeenSent(State, handleIncomingData(State, c, k, TextEnvelope(p, m)), c, k, m)

IsFriend(s, c, x) == \E i \in DOMAIN s.friends[c] : s.friends[c][i].id = x

\* C15: a friend_accept from a peer to whom no request was sent creates no
\* friend record: while no client has called any friend operation, a
\* friend_accept envelope received on any connection leaves the friend store
\* as it was.
C15_UnsolicitedAccept ==
  \A c \in Peers : \A k \in Receiving(c) :
    budget.social = MaxSocialOps =>
      LET x == PeerOf(State, k, c)
          r == handleIncomingData(State, c, k,
                                  [type |-> "friend_accept", payload |-> userProfile(x)])
      IN r.friends[c] = friends[c]

Pending(s, c, x) == \E i \in DOMAIN s.friendRequests[c] : s.friendRequests[c][i].peerId = x
AcceptEnvelope(b) == [type |-> "friend_accept", payload |-> userProfile(b)]

\* the connections to a that client b holds in its main slot or in its direct
\* registry
Held(s, b, a) ==
  {k \in ConnIds : \/ k = s.mainConnRef[b] /\ PeerOf(s, k, b) = a
                   \/ k = s.directConnsRef[b][a]}

\* connection k is open at both ends, with the data listener installed at both
OpenBothEnds(s, k) ==
  /\ s.conns[k].st = [a |-> "open", b |-> "open"]
  /\ hasListeners(s, s.conns[k].from, k) /\ hasListeners(s, s.conns[k].to, k)

\* the connections on which r, compared with s, has one more envelope queued
\* for client a: b's friend_accept
AcceptSentOn(s, r, b, a) ==
  {k \in ConnIds : /\ {r.conns[k].from, r.conns[k].to} = {a, b}
                   /\ r.conns[k].q[SideOf(r, k, a)] =
                        Append(s.conns[k].q[SideOf(s, k, a)], AcceptEnvelope(b))}

C17_PendingDeduped ==
  \A c \in Peers :
    /\ \A i, j \in DOMAIN friendRequests[c] :
         friendRequests[c][i].peerId = friendRequests[c][j].peerId => i = j
    /\ \A k \in Receiving(c) :
         LET x == PeerOf(State, k, c)
             r == handleIncomingData(State, c, k,
                                     [type |-> "friend_request", payload |-> userProfile(x)])
         IN IsFriend(State, c, x) => r.friendRequests[c] = friendRequests[c]

\* envelopes of the types that neither make nor answer a friend request
OtherEnvelopes ==
  {TextEnvelope("hi", "x1"),
   [type |-> "seen", messageId |-> "x1"],
   [type |-> "typing", payload |-> TRUE],
   [type |-> "vanish_mode", payload |-> TRUE],
   [type |-> "disconnect"]}

\* C18: a pending friend request for peer X stays in the pending list across
\* connect, disconnect and incoming envelopes of other types; only accepting
\* or rejecting X removes it.
C18_PendingKept ==
  \A c \in Peers : \A x \in Peers :
    Pending(State, c, x) =>
      /\ Pending(connect(State, c, status[c]), c, x)
      /\ Pending(disconnect(State, c), c, x)
      /\ \A k \in Receiving(c) : \A env \in OtherEnvelopes :
           Pending(handleIncomingData(State, c, k, env), c, x)

Emojis == {"heart"}
ReactionEnvelope(m, e) == [type |-> "reaction", payload |-> e, messageId |-> m]
\* the reaction entries (e, who) of message i in client c's history
ReactionsOf(s, c, i, e, who) ==
  {j \in DOMAIN Field(s.messages[c][i], "reactions", <<>>) :
     s.messages[c][i].reactions[j] = [emoji |-> e, sender |-> who]}

\* r1 and r2 are the states after one and after two applications of a
\* reaction envelope for message i: one (e, stranger) entry, the second
\* application a no-op
AppliedTwice(r1, r2, c, i, e) ==
  /\ Cardinality(ReactionsOf(r2, c, i, e, "stranger")) = 1
  /\ r2 = r1

\* C19: applying the same inbound reaction envelope twice to the main history
\* leaves exactly one (emoji, stranger) entry on the referenced message, and
\* the second application changes nothing; in both copies of the hook.
C19_ReactionIdempotent ==
  \A c \in Peers : \A k \in Receiving(c) : \A e \in Emojis :
    \A i \in DOMAIN messages[c] :
      k = mainConnRef[c] =>
        LET env == ReactionEnvelope(messages[c][i].id, e)
            r1 == onReaction(State, c, k, env)
            p1 == onReactionCopy(State, c, k, env)
        IN /\ AppliedTwice(r1, onReaction(r1, c, k, env), c, i, e)
           /\ AppliedTwice(p1, onReactionCopy(p1, c, k, env), c, i, e)

\* the positions of client c's history whose entry has status seen
SeenAt(s, c) ==
  {i \in DOMAIN s.messages[c] : Field(s.messages[c][i], "status", "undefined") = "seen"}
\* every entry of r's history with an id that is seen in s is seen in r
StaysSeen(s, r, c) ==
  \A i \in SeenAt(s, c) : \A j \in DOMAIN r.messages[c] :
    r.messages[c][j].id = s.messages[c][i].id => j \in SeenAt(r, c)
\* the envelopes the claim names, for the message with id m
StatusNeutral(m, x) ==
  {[type |-> "seen", messageId |-> m],
   [type |-> "edit_message", payload |-> "edited", messageId |-> m],
   ReactionEnvelope(m, "heart"),
   [type |-> "profile", payload |-> userProfile(x)]}

\* C20: message status is one-way. Across every step, a message that has
\* status seen and is still in the history has status seen; and in the state
\* before the step, a repeated seen envelope, an edit, a reaction (inbound or
\* the client's own) or a profile patch leaves every seen message seen.
C20_SeenIsOneWay ==
  [][\A c \in Peers :
       /\ StaysSeen(State, [messages |-> messages'], c)
       /\ \A i \in SeenAt(State, c) :
            LET m == messages[c][i].id IN
            /\ StaysSeen(State, sendReaction(State, c, m, "heart"), c)
            /\ StaysSeen(State, editMessage(State, c, m, "edited"), c)
            /\ \A k \in Receiving(c) : \A env \in StatusNeutral(m, PeerOf(State, k, c)) :
                 StaysSeen(State, handleIncomingData(State, c, k, env), c)]_vars

\* a message that was seen by the partner and edited by its sender is in the
\* sender's history with status seen
C20_Witness ==
  \E c \in Peers : \E i \in SeenAt(State, c) :
    Field(messages[c][i], "isEdited", FALSE) = TRUE

\* ---------------------------------------------------------------------------
\* History, presence, pairing

\* every id occurs once in client c's main history
UniqueIds(s, c) ==
  \A i, j \in DOMAIN s.messages[c] : s.messages[c][i].id = s.messages[c][j].id => i = j

\* C21: every message id occurs at most once in the main history, in every
\* reachable state and after any inbound message envelope, one that reuses an
\* id of the history included.
C21_UniqueMessageIds ==
  \A c \in Peers :
    /\ UniqueIds(State, c)
    /\ \A k \in Receiving(c) : \A p \in Texts : \A m \in FreshIds \cup MessageIds(c) :
         k = mainConnRef[c] =>
           UniqueIds(handleIncomingData(State, c, k, TextEnvelope(p, m)), c)

\* reaction, edit_message and seen envelopes that carry no message id, or the
\* id m
Referring(m) ==
  {[type |-> "seen", messageId |-> m],
   ReactionEnvelope(m, "heart"),
   [type |-> "edit_message", payload |-> "edited", messageId |-> m]}
NotReferring ==
  {[type |-> "seen"],
   [type |-> "reaction", payload |-> "heart"],
   [type |-> "edit_message", payload |-> "edited"]}

\* C22: a reaction, edit_message or seen envelope whose message id is missing
\* from the envelope or is not in the local history leaves the history
\* unchanged.
C22_AbsentIdIsNoOp ==
  \A c \in Peers : \A k \in Receiving(c) :
    \A env \in NotReferring \cup UNION {Referring(m) : m \in FreshIds \ MessageIds(c)} :
      handleIncomingData(State, c, k, env).messages[c] = messages[c]

\* C23: presence status busy is published as a result of the main connection
\* opening: in the step that publishes busy for a client, the connection in
\* its main slot is open at that client.
C23_BusyOnOpen ==
  [][\A c \in Peers :
       (presence[c].status # "busy" /\ presence'[c].status = "busy") =>
         /\ mainConnRef'[c] # NoConn
         /\ conns'[mainConnRef'[c]].st[IF conns'[mainConnRef'[c]].from = c
                                       THEN "a" ELSE "b"] = "open"]_vars

\* C24: the ordering of waiting peers is a deterministic total order on the
\* set of entries: whatever order the entries of the lobby are delivered in,
\* the sorted list of waiters, and so the oldest waiter, is the same.
C24_OrderIndependent ==
  \A o1, o2 \in Orders(Present(State)) :
    sortedWaiters(allUsersOf(State, o1)) = sortedWaiters(allUsersOf(State, o2))

\* the entry of a recent list that was saved longest ago
Oldest(list) ==
  CHOOSE e \in {list[i] : i \in DOMAIN list} :
    \A i \in DOMAIN list : e.metAt <= list[i].metAt
Entries(list) == {list[i] : i \in DOMAIN list}

\* C25: the recent list never holds more than RecentCap entries and is ordered
\* newest first; saveToRecent puts its entry first, and saving a peer that is
\* not in a full list evicts the entry that was saved longest ago and no other.
C25_RecentBounded ==
  \A c \in Peers :
    /\ Len(recents[c]) <= RecentCap
    /\ \A i, j \in DOMAIN recents[c] :
         i < j => recents[c][i].metAt > recents[c][j].metAt
    /\ \A u \in RecentNames :
         LET r == saveToRecent(State, c, u, u, Now).recents[c] IN
           /\ Len(r) <= RecentCap
           /\ r[1] = [peerId |-> u, profile |-> u, metAt |-> Now]
           /\ (Len(recents[c]) = RecentCap
                 /\ \A e \in Entries(recents[c]) : e.profile # u) =>
                Entries(r) = (Entries(recents[c]) \ {Oldest(recents[c])}) \cup {r[1]}
\* a full list whose oldest entry was evicted by a saved peer
C25_Witness ==
  \E c \in Peers :
    /\ Len(recents[c]) = RecentCap
    /\ recents[c][1].metAt > RecentCap
    /\ recents[c][RecentCap].metAt > 1

\* C26: when the attach with the persistent id has failed, the failure is
\* shown as an error state and a later connect request is not blocked by the
\* failed attempt: it attaches again.
C26_AttachFailureSurfaced ==
  \A c \in Peers :
    peerRef[c] = "destroyed" =>
      /\ error[c] # "null"
      /\ connect(State, c, status[c]).peerRef[c] = "attaching"

\* the ids of the private chat that client c shows
LocalIds(s, c) ==
  {s.socialHub[c].localChatHistory[i].id : i \in DOMAIN s.socialHub[c].localChatHistory}
\* the hook has delivered envelope data from the active peer of client c
DirectFrom(s, c, data) ==
  [s EXCEPT !.incomingDirectMessage[c] =
     [peerId |-> s.socialHub[c].activePeer, message |-> newMessage(data)]]
\* message m of the private chat that client c shows carries the reaction e
\* of the client
ReactedLocally(s, c, m, e) ==
  \E i \in DOMAIN s.socialHub[c].localChatHistory :
    /\ s.socialHub[c].localChatHistory[i].id = m
    /\ \E j \in DOMAIN s.socialHub[c].localChatHistory[i].reactions :
         s.socialHub[c].localChatHistory[i].reactions[j] = [emoji |-> e, sender |-> "me"]

\* C27: when the write to the store fails while an outbound message, an
\* inbound message or a reaction is added to the history of the active chat,
\* no error escapes and the history shown holds the message or the reaction.
C27_QuotaFailureCaught ==
  \A c \in Pair :
    (/\ socialHub[c].activePeer # NoPeer
     /\ ~socialHub[c].uncaught
     /\ FreeIds(State) # {} \/ directConnsRef[c][socialHub[c].activePeer] # NoConn) =>
      /\ \A m \in FreshIds \ LocalIds(State, c) :
           LET r == handlePrivateSubmit(State, c, "hi", m, TRUE, status[c]) IN
             ~r.socialHub[c].uncaught /\ m \in LocalIds(r, c)
      /\ \A m \in FreshIds \ LocalIds(State, c) :
           LET r == directMessageEffect(DirectFrom(State, c, TextEnvelope("hi", m)), c, TRUE) IN
             ~r.socialHub[c].uncaught /\ m \in LocalIds(r, c)
      /\ \A m \in LocalIds(State, c) :
           LET r == handleReactionSend(State, c, m, "heart", TRUE) IN
             ~r.socialHub[c].uncaught /\ ReactedLocally(r, c, m, "heart")

\* C28: pairing is symmetric whatever the number of clients: when client a is
\* CONNECTED with its main connection to b and b is CONNECTED, the main
\* connection of b is to a.
C28_PairingSymmetric ==
  \A a, b \in Peers :
    (/\ status[a] = CONNECTED
     /\ mainConnRef[a] # NoConn
     /\ PeerOf(State, mainConnRef[a], a) = b
     /\ status[b] = CONNECTED) =>
      /\ mainConnRef[b] # NoConn
      /\ PeerOf(State, mainConnRef[b], b) = a

\* the connections of metadata type 'random' that client c is establishing:
\* set up at c and not yet open there
MainKindPendingAt(c) ==
  {k \in ConnIds : /\ conns[k].kind = "random"
                   /\ c \in {conns[k].from, conns[k].to}
                   /\ conns[k].st[SideOf(State, k, c)] = "pending"}
\* connection k opens at client c in this step
OpensAt(k, c) ==
  /\ conns[k].st[SideOf(State, k, c)] = "pending"
  /\ conns'[k].st[SideOf(State, k, c)] = "open"

\* C29: of two main-kind connections that a client is establishing at once,
\* the one that opens first is recorded as the main connection and gives the
\* partner, and the one that opens later does not replace it.
C29_FirstOpenWins ==
  [][\A c \in Peers : \A k, j \in MainKindPendingAt(c) :
       (k # j /\ OpensAt(k, c)) =>
         /\ mainConnRef'[c] = k
         /\ partnerPeerId'[c] = PeerOf(State, k, c)
         /\ status'[c] = CONNECTED]_vars

\* C30: the kind of a connection is fixed when it is set up: a message
\* envelope on a connection of metadata type 'random' is added to the main
\* history and is not surfaced as a direct message, and a message envelope on
\* a connection of type 'direct' is surfaced as a direct message and leaves
\* the main history alone.
C30_KindIsFixed ==
  \A c \in Peers : \A k \in Receiving(c) : \A m \in FreshIds :
    LET r == handleIncomingData(State, c, k, TextEnvelope("hi", m)) IN
      /\ conns[k].kind = "random" =>
           /\ r.incomingDirectMessage[c] = incomingDirectMessage[c]
           /\ r.messages[c] = Append(messages[c], newMessage(TextEnvelope("hi", m)))
      /\ conns[k].kind = "direct" =>
           /\ r.messages[c] = messages[c]
           /\ r.incomingDirectMessage[c] =
                [peerId |-> PeerOf(State, k, c), message |-> newMessage(TextEnvelope("hi", m))]

\* ---------------------------------------------------------------------------
\* Registry, session state, frame effects

\* the connections set up at client c that have not opened there yet
Establishing(c) ==
  {k \in ConnIds : /\ c \in {conns[k].from, conns[k].to}
                   /\ conns[k].st[SideOf(State, k, c)] = "pending"
                   /\ hasListeners(State, c, k)}
\* client c holds connection k in the main slot or in the direct map
Registered(s, c, k) ==
  \/ s.mainConnRef[c] = k
  \/ \E p \in Peers : s.directConnsRef[c][p] = k

\* C31: after the close event of a connection, and after its error event, the
\* connection is neither in the main slot nor in the direct map of the client.
C31_ClosedIsUnregistered ==
  \A c \in Peers :
    /\ \A k \in Receiving(c) : ~Registered(connClosed(State, c, k), c, k)
    /\ \A k \in Establishing(c) : ~Registered(connErrored(State, c, k), c, k)

\* C32: the session state of a client is CONNECTED exactly when its main slot
\* holds a connection that is open at the client.
C32_ConnectedIffOpenMain ==
  \A c \in Peers : status[c] = CONNECTED <=> IsOpen(State, mainConnRef[c], c)

\* the main-kind connections on their way to client c: created by the caller,
\* not yet announced to c
InboundMain(c) ==
  {k \in ConnIds : /\ conns[k].kind = "random"
                   /\ conns[k].to = c
                   /\ conns[k].st = [a |-> "pending", b |-> "none"]
                   /\ peerRef[conns[k].from] = "open"
                   /\ peerRef[c] = "open"}

\* C33: the delayed close that cleanupMain schedules touches only the
\* connection that was main when the disconnect was requested: when an inbound
\* main connection is recorded during the delay, the timer neither closes it
\* nor removes it from the main slot.
C33_TimerSparesNewMain ==
  \A c \in Peers : \A k \in InboundMain(c) :
    (mainConnRef[c] # NoConn /\ closeTimers[c] = 0) =>
      LET requested == disconnect(State, c)
          recorded == peerConnection(requested, k)
          fired == cleanupMainTimer(recorded, c)
      IN recorded.mainConnRef[c] = k =>
           /\ fired.mainConnRef[c] = k
           /\ fired.conns[k].st.b = "pending"

\* C34: a client is in the lobby with status waiting only while its session
\* state is SEARCHING or WAITING.
C34_WaitingOnlyWhileSearching ==
  \A c \in Peers :
    presence[c].status = "waiting" => status[c] \in {SEARCHING, WAITING}

\* the direct registry of client c and the state of every connection of type
\* 'direct' are in r as they are in s
DirectUntouched(s, r, c) ==
  /\ r.directConnsRef[c] = s.directConnsRef[c]
  /\ \A k \in ConnIds : s.conns[k].kind = "direct" => r.conns[k].st = s.conns[k].st
\* the main connection, the session state and the main history of client c
\* are in r as they are in s
MainUntouched(s, r, c) ==
  /\ r.mainConnRef[c] = s.mainConnRef[c]
  /\ r.status[c] = s.status[c]
  /\ r.messages[c] = s.messages[c]

\* C35: disconnect() and connect(), with the delayed close they schedule,
\* leave the direct registry and every direct connection as they are, and
\* callPeer leaves the main connection, the session state and the main history
\* as they are.
C35_MainAndDirectAreSeparate ==
  \A c \in Peers :
    /\ closeTimers[c] = 0 =>
         /\ DirectUntouched(State, disconnect(State, c), c)
         /\ DirectUntouched(State, cleanupMainTimer(disconnect(State, c), c), c)
         /\ DirectUntouched(State, connect(State, c, status[c]), c)
    /\ FreeIds(State) # {} =>
         \A target \in Peers \ {c} : \A targetProfile \in {NoPeer, userProfile(target)} :
           MainUntouched(State, callPeer(State, c, target, targetProfile, status[c]), c)

\* the direct-registry entries of client c that hold an open connection
\* other than k
OtherOpenEntries(c, k) ==
  {p \in Peers : /\ directConnsRef[c][p] # k
                 /\ IsOpen(State, directConnsRef[c][p], c)}

\* C36: removal from the direct registry is by connection identity: neither
\* the close event nor a disconnect envelope on connection k removes the
\* entry of another connection that is still open.
C36_RemovalByIdentity ==
  \A c \in Peers : \A k \in Receiving(c) : \A p \in OtherOpenEntries(c, k) :
    /\ connClosed(State, c, k).directConnsRef[c][p] = directConnsRef[c][p]
    /\ connData(State, c, k, [type |-> "disconnect"]).directConnsRef[c][p]
         = directConnsRef[c][p]

\* edit_message envelopes: for the id m, and without an id
EditEnvelopes(c) ==
  {[type |-> "edit_message", payload |-> "edited"]}
    \cup {[type |-> "edit_message", payload |-> "edited", messageId |-> m] :
            m \in FreshIds \cup MessageIds(c)}
\* the positions of client c's main history whose entry differs between s and r
ChangedAt(s, r, c) ==
  {i \in DOMAIN s.messages[c] : r.messages[c][i] # s.messages[c][i]}

\* C37: an inbound edit_message envelope on the main connection changes at
\* most one message of the history, a text message of the stranger, by setting
\* its text and isEdited; on any other connection it changes no state.
C37_EditChangesOneStrangerText ==
  \A c \in Peers : \A k \in Receiving(c) : \A env \in EditEnvelopes(c) :
    LET r == handleIncomingData(State, c, k, env) IN
      /\ k # mainConnRef[c] => r = State
      /\ DOMAIN r.messages[c] = DOMAIN messages[c]
      /\ Cardinality(ChangedAt(State, r, c)) <= 1
      /\ \A i \in ChangedAt(State, r, c) :
           /\ messages[c][i].sender = "stranger"
           /\ messages[c][i].type = "text"
           /\ r.messages[c][i] =
                SetField(SetField(messages[c][i], "text", env.payload), "isEdited", TRUE)

\* C38: no message of the main history holds two reaction entries with the
\* same emoji and sender, the reactions the client added itself included.
C38_ReactionsAreDistinct ==
  \A c \in Peers : \A i \in DOMAIN messages[c] :
    LET reactions == Field(messages[c][i], "reactions", <<>>) IN
    \A a, b \in DOMAIN reactions :
      (reactions[a].emoji = reactions[b].emoji
         /\ reactions[a].sender = reactions[b].sender) => a = b

\* a connect request of client c is in progress: the peer has not opened or
\* the lobby subscription is not established, and no main connection is
\* recorded
ConnectInProgress(c) ==
  /\ joinOnOpen[c] \/ channelRef[c] = "joining"
  /\ mainConnRef[c] = NoConn

\* C39: while a connect request is in progress, a second connect() call has
\* no effect.
C39_SecondConnectIsNoOp ==
  \A c \in Peers :
    ConnectInProgress(c) => connect(State, c, status[c]) = State

\* the envelopes that end an indication: a message, or the indicator set false
ClearingEnvelopes ==
  {TextEnvelope("hi", m) : m \in FreshIds}
    \cup {[type |-> "typing", payload |-> FALSE],
          [type |-> "recording", payload |-> FALSE]}

\* taken on the main connection, a message envelope leaves both indicators
\* false and a false typing (recording) envelope leaves that indicator false
ClearedAtOnce ==
  \A c \in Peers : \A k \in Receiving(c) : \A env \in ClearingEnvelopes :
    isMain(State, c, k) =>
      LET r == handleIncomingData(State, c, k, env) IN
      /\ env.type \in {"message", "typing"} =>
           ~r.partnerTyping[c] /\ ~r.typingTimeoutRef[c]
      /\ env.type \in {"message", "recording"} =>
           ~r.partnerRecording[c] /\ ~r.recordingTimeoutRef[c]

\* C40: the partner's typing and recording indicators of the main session
\* always expire: once an indicator is true it eventually becomes false, by a
\* clearing envelope or by the expiry timer; and a message envelope or a false
\* indicator envelope arriving on the main connection clears it at once.
C40_IndicatorsExpire ==
  /\ []ClearedAtOnce
  /\ \A c \in Peers : partnerTyping[c] ~> ~partnerTyping[c]
  /\ \A c \in Peers : partnerRecording[c] ~> ~partnerRecording[c]

\* the partner is shown typing on an open main connection and the expiry is armed
C40_Witness ==
  \E c \in Peers :
    /\ partnerTyping[c] /\ typingTimeoutRef[c]
    /\ mainConnRef[c] \in Receiving(c)

====
